---- MODULE Spec2Model ----
(***************************************************************************)
(* A model of dijitso: the lock-free file move of dijitso/system.py, the   *)
(* cache and build driver of dijitso/cache.py and dijitso/build.py, and    *)
(* the jit driver of dijitso/jit.py.                                       *)
(*                                                                         *)
(* The file system is a function from the names of the existing files to   *)
(* their content.  Every call of the os module in the code is a step of    *)
(* its own; a caller can be preempted between any two of them.  A step     *)
(* that touches nothing but the caller's local variables and its own       *)
(* source file is taken together with the step before it, since no other   *)
(* caller can tell the difference.                                         *)
(***************************************************************************)
EXTENDS Integers, Sequences, FiniteSets, TLC

\* ------------------------------------------------------------------ bounds
\* number of concurrent callers of lockfree_move_file
NProcs == 3

Procs == 1..NProcs

\* number of jit and build_shared_library calls of one run
MaxCalls == 3

\* complete file contents; Partial is a file whose writer has not finished
Contents == {"a", "b"}
Partial == "partial"

\* ------------------------------------------------------------ file names
\* dir is the directory, a pair <<root, subdirectory>>; kind and sig give the
\* base name (kind selects the prefix and postfix); ext is a suffix such as
\* ".gz"; stage and id carry the ".priv.<id>" / ".pub.<id>" suffixes of the
\* lock-free move
FileName(dir, kind, sig) ==
    [dir |-> dir, kind |-> kind, sig |-> sig, ext |-> "", stage |-> "", id |-> 0]

\* def priv(j): return dst + ".priv." + str(j)
priv(dst, j) == [dst EXCEPT !.stage = "priv", !.id = j]

\* def pub(j): return dst + ".pub." + str(j)
pub(dst, j) == [dst EXCEPT !.stage = "pub", !.id = j]

\* ------------------------------------------------------ os-level helpers
\* os.path.exists
exists(f, n) == n \in DOMAIN f

\* open(n, "w").write(c), complete
write_file(f, n, c) == [x \in (DOMAIN f) \cup {n} |-> IF x = n THEN c ELSE f[x]]

\* os.remove of an existing file
os_remove(f, n) == [x \in (DOMAIN f) \ {n} |-> f[x]]

\* os.rename of an existing file (POSIX: replaces an existing destination)
os_rename(f, s, d) == write_file(os_remove(f, s), d, f[s])

\* try_rename_file: ENOENT (and EEXIST) are ignored
try_rename_file(f, s, d) == IF exists(f, s) THEN os_rename(f, s, d) ELSE f

\* try_delete_file: ENOENT is ignored
try_delete_file_noop(f, n) == f
try_delete_file(f, n) == IF exists(f, n) THEN os_remove(f, n) ELSE f

\* glob(pub("*")) and the parsing of the ids
glob_pub(f, dst) == {n.id : n \in {x \in DOMAIN f : x = pub(dst, x.id)}}

SetMin(S) == CHOOSE x \in S : \A y \in S : x <= y

\* --------------------------------------------------- lockfree_move_file
\* the local variables of one call
NewCall(src, dst, id, x) ==
    [pc |-> "start", src |-> src, dst |-> dst, own |-> id, ui |-> id,
     uuids |-> {}, todo |-> {}, s |-> "", d |-> "", warned |-> FALSE,
     err |-> "", xdev |-> x]

IdleCall(src, dst, id) == [NewCall(src, dst, id, FALSE) EXCEPT !.pc = "idle"]

Out(f, l) == [fs |-> f, l |-> l]
Goto(l, pc) == [l EXCEPT !.pc = pc]
Raise(l, msg) == [l EXCEPT !.pc = "raised", !.err = msg]

Finished(l) == l.pc \in {"done", "raised"}
Active(l) == l.pc \notin {"idle", "done", "raised", "halted"}

\* if not os.path.exists(src): raise RuntimeError(...)
step_start(f, l) ==
    IF ~exists(f, l.src)
    THEN {Out(f, Raise(l, "Source file does not exist."))}
    ELSE {Out(f, Goto(l, "chk_dst"))}

\* if os.path.exists(dst):
step_chk_dst(f, l) ==
    IF exists(f, l.dst) THEN {Out(f, Goto(l, "read_src"))}
    ELSE {Out(f, Goto(l, "move"))}

\* with open(src) as f: s = f.read()
step_read_src(f, l) ==
    IF exists(f, l.src)
    THEN {Out(f, [l EXCEPT !.pc = "read_dst", !.s = f[l.src]])}
    ELSE {Out(f, Raise(l, "IOError"))}

\* with open(dst) as f: d = f.read()
step_read_dst(f, l) ==
    IF exists(f, l.dst)
    THEN {Out(f, [l EXCEPT !.pc = "compare", !.d = f[l.dst]])}
    ELSE {Out(f, Raise(l, "IOError"))}

\* if s != d: warning(...) else: try_delete_file(src); return
step_compare_keep_src(f, l) ==
    {Out(f, [l EXCEPT !.pc = "done", !.warned = (l.s # l.d)])}
step_compare(f, l) ==
    IF l.s # l.d
    THEN {Out(f, [l EXCEPT !.pc = "done", !.warned = TRUE])}
    ELSE {Out(try_delete_file(f, l.src), Goto(l, "done"))}

\* move_file(src, priv(ui)): shutil.move is one os.rename when src and dst
\* are on the same file system, and a copy followed by an unlink of the
\* source when they are not (xdev); the copy is visible under its name while
\* it is being written
move_target_pub(l) == pub(l.dst, l.ui)
move_target(l) == priv(l.dst, l.ui)
move_file_begin(f, l) ==
    IF ~exists(f, l.src) THEN {Out(f, Raise(l, "AssertionError"))}
    ELSE IF l.xdev
         THEN {Out(write_file(f, move_target(l), Partial), Goto(l, "copy"))}
         ELSE {Out(os_rename(f, l.src, move_target(l)), Goto(l, "publish"))}

move_file_copy(f, l) ==
    IF ~exists(f, l.src) THEN {Out(f, Raise(l, "IOError"))}
    ELSE {Out(write_file(f, move_target(l), f[l.src]), Goto(l, "unlink"))}

move_file_unlink(f, l) ==
    IF ~exists(f, l.src) THEN {Out(f, Raise(l, "OSError"))}
    ELSE {Out(os_remove(f, l.src), Goto(l, "publish"))}

\* rename_file(priv(ui), pub(ui)); a failing os.rename ends in the handler
\* "e.errno not in errno.EEXIST", which raises TypeError
rename_file(f, l) ==
    IF exists(f, priv(l.dst, l.ui))
    THEN {Out(os_rename(f, priv(l.dst, l.ui), pub(l.dst, l.ui)), Goto(l, "glob"))}
    ELSE {Out(f, Raise(l, "TypeError"))}

\* uuids = sorted(int(fn[n:]) for fn in glob(pub("*")))
step_glob(f, l) ==
    LET ids == glob_pub(f, l.dst) IN
    {Out(f, [l EXCEPT !.pc = "del_larger", !.uuids = ids,
                      !.todo = {i \in ids : i > l.ui}])}

\* for i in uuids: if i > ui: try_delete_file(pub(i))
step_del_larger(f, l) ==
    IF l.todo = {} THEN {Out(f, Goto(l, "yield"))}
    ELSE LET i == SetMin(l.todo) IN
         {Out(try_delete_file(f, pub(l.dst, i)), [l EXCEPT !.todo = @ \ {i}])}

\* for i in uuids: if i < ui: try_delete_file(pub(ui)); ui = i
\* (uuids is ascending, so only its first element can be below ui)
step_yield_no_adopt(f, l) == {Out(f, Goto(l, "chk_final"))}
step_yield(f, l) ==
    LET lower == {i \in l.uuids : i < l.ui} IN
    IF lower = {} THEN {Out(f, Goto(l, "chk_final"))}
    ELSE {Out(try_delete_file(f, pub(l.dst, l.ui)),
              [l EXCEPT !.ui = SetMin(lower)])}

\* if os.path.exists(dst):
step_chk_final(f, l) ==
    IF exists(f, l.dst) THEN {Out(f, Goto(l, "del_own"))}
    ELSE {Out(f, Goto(l, "rename_final"))}

\* try_delete_file(pub(ui))
step_del_own(f, l) ==
    {Out(try_delete_file(f, pub(l.dst, l.ui)), Goto(l, "chk_src"))}

\* try_rename_file(pub(ui), dst)
step_rename_final(f, l) ==
    {Out(try_rename_file(f, pub(l.dst, l.ui), l.dst), Goto(l, "chk_src"))}

\* if os.path.exists(src): raise RuntimeError(...)
step_chk_src(f, l) ==
    IF exists(f, l.src)
    THEN {Out(f, Raise(l, "Source file should not exist at this point!"))}
    ELSE {Out(f, Goto(l, "chk_end"))}

\* if not os.path.exists(dst): raise RuntimeError(...)
step_chk_end(f, l) ==
    IF ~exists(f, l.dst)
    THEN {Out(f, Raise(l, "Destination file should exist at this point!"))}
    ELSE {Out(f, Goto(l, "done"))}

\* the outcomes of the next statement of the call l
lockfree_move_file_step(f, l) ==
    CASE l.pc = "start"        -> step_start(f, l)
      [] l.pc = "chk_dst"      -> step_chk_dst(f, l)
      [] l.pc = "read_src"     -> step_read_src(f, l)
      [] l.pc = "read_dst"     -> step_read_dst(f, l)
      [] l.pc = "compare"      -> step_compare(f, l)
      [] l.pc = "move"         -> move_file_begin(f, l)
      [] l.pc = "copy"         -> move_file_copy(f, l)
      [] l.pc = "unlink"       -> move_file_unlink(f, l)
      [] l.pc = "publish"      -> rename_file(f, l)
      [] l.pc = "glob"         -> step_glob(f, l)
      [] l.pc = "del_larger"   -> step_del_larger(f, l)
      [] l.pc = "yield"        -> step_yield(f, l)
      [] l.pc = "chk_final"    -> step_chk_final(f, l)
      [] l.pc = "del_own"      -> step_del_own(f, l)
      [] l.pc = "rename_final" -> step_rename_final(f, l)
      [] l.pc = "chk_src"      -> step_chk_src(f, l)
      [] l.pc = "chk_end"      -> step_chk_end(f, l)
      [] OTHER                 -> {}

\* the statements that touch only the caller's locals and its source file
IsLocal(l) ==
    \/ l.pc \in {"start", "read_src", "compare", "chk_src"}
    \/ l.pc = "del_larger" /\ l.todo = {}
    \/ l.pc = "yield" /\ {i \in l.uuids : i < l.ui} = {}

RECURSIVE RunLocal(_)
RunLocal(S) ==
    UNION {IF IsLocal(o.l) THEN RunLocal(lockfree_move_file_step(o.fs, o.l))
           ELSE {o} : o \in S}

\* the outcomes of the next step of the call l: one statement that other
\* callers can observe, and the local statements that follow it
lockfree_move_file(f, l) == RunLocal(lockfree_move_file_step(f, l))

\* a whole call of lockfree_move_file(src, dst) that no other caller
\* competes with: the steps above, taken one after the other
RECURSIVE RunToEnd(_)
RunToEnd(S) ==
    UNION {IF Finished(o.l) THEN {o}
           ELSE RunToEnd(lockfree_move_file_step(o.fs, o.l)) : o \in S}

\* ======================================================================
\* The cache, the build driver and the jit driver.  They run inside one
\* process; w is the world they act on: the file system fs, the existing
\* directories dirs, the module globals _lib_cache and _ensure_dirs_called,
\* the counters of the loaded handles and of the temporary directories, and
\* the outcome of the call so far (ev: what it invoked, ret: the value it
\* returns, err: the error it raised, "" if none).
\* ======================================================================
Sigs == {"s1", "s2"}
Roots == {"r1", "r2"}
Storages == {"keep", "delete", "compress", "bogus"}
Roles == {"builder", "receiver", "waiter", "bogus"}

\* None, as a library handle
NoLib == [sig |-> "", root |-> "", n |-> 0]

\* params: the cache parameters root_dir and src_storage, and the build
\* parameter debug (False by default)
CacheParams(root, storage) ==
    [root_dir |-> root, src_storage |-> storage, debug |-> FALSE]
BuildParams(cp, debug) == [cp EXCEPT !.debug = debug]

Raised(w) == w.err # ""
Fail(w, msg) == IF Raised(w) THEN w ELSE [w EXCEPT !.err = msg]
Event(w, e) == [w EXCEPT !.ev = @ \cup {e}]

\* the content of the compiled library and of the gzipped source
compiled(c) == CASE c = "a" -> "a.so" [] c = "b" -> "b.so" [] OTHER -> "x.so"
\* the library the compiler makes with cxxflags_debug
compiled_debug(c) == CASE c = "a" -> "a-g.so" [] c = "b" -> "b-g.so" [] OTHER -> "x.so"
gzipped(c) == CASE c = "a" -> "a.gz" [] c = "b" -> "b.gz" [] OTHER -> "x.gz"

with_ext(n, e) == [n EXCEPT !.ext = e]

create_inc_filename(sig, cp) == FileName(<<cp.root_dir, "inc">>, "inc", sig)
create_src_filename(sig, cp) == FileName(<<cp.root_dir, "src">>, "src", sig)
create_lib_filename(sig, cp) == FileName(<<cp.root_dir, "lib">>, "lib", sig)

\* os.makedirs, EEXIST ignored
make_dirs(w, d) == IF Raised(w) THEN w ELSE [w EXCEPT !.dirs = @ \cup {d}]
make_inc_dir(w, cp) == make_dirs(w, <<cp.root_dir, "inc">>)
make_src_dir(w, cp) == make_dirs(w, <<cp.root_dir, "src">>)
make_lib_dir(w, cp) == make_dirs(w, <<cp.root_dir, "lib">>)
make_log_dir(w, cp) == make_dirs(w, <<cp.root_dir, "log">>)

\* ensure_dirs: the four directories, once per process
ensure_dirs(w, cp) ==
    IF Raised(w) \/ w.ensure_dirs_called THEN w
    ELSE [make_log_dir(make_lib_dir(make_src_dir(make_inc_dir(w, cp), cp), cp), cp)
            EXCEPT !.ensure_dirs_called = TRUE]

\* with open(n, "w") as f: f.write(c)
open_write(w, n, c) ==
    IF Raised(w) THEN w
    ELSE IF n.dir \notin w.dirs THEN Fail(w, "IOError")
    ELSE [w EXCEPT !.fs = write_file(@, n, c)]

\* deletefile: os.remove, ENOENT ignored
deletefile(w, n) == IF Raised(w) THEN w ELSE [w EXCEPT !.fs = try_delete_file(@, n)]

\* load_library: None if the file is missing, an error if the dynamic
\* linker rejects it (loadok = FALSE), else a new handle, put in _lib_cache
load_library_no_register(w, sig, cp, loadok) ==
    LET fn == create_lib_filename(sig, cp) IN
    IF Raised(w) THEN w
    ELSE IF ~exists(w.fs, fn) THEN [w EXCEPT !.ret = NoLib]
    ELSE IF ~loadok THEN Fail(w, "Failed to load library")
    ELSE [Event(w, "load") EXCEPT !.nload = @ + 1,
             !.ret = [sig |-> sig, root |-> cp.root_dir, n |-> w.nload + 1]]
load_library(w, sig, cp, loadok) ==
    LET fn == create_lib_filename(sig, cp)
        lib == [sig |-> sig, root |-> cp.root_dir, n |-> w.nload + 1]
    IN
    IF Raised(w) THEN w
    ELSE IF ~exists(w.fs, fn) THEN [w EXCEPT !.ret = NoLib]
    ELSE IF ~loadok THEN Fail(w, "Failed to load library")
    ELSE [Event(w, "load") EXCEPT !.nload = @ + 1, !.ret = lib,
             !.lib_cache = [x \in (DOMAIN @) \cup {sig} |->
                               IF x = sig THEN lib ELSE @[x]]]

\* lookup_lib: the memory cache, then the disk
lookup_lib_memory_only(w, sig, cp, loadok) ==
    IF sig \in DOMAIN w.lib_cache THEN [w EXCEPT !.ret = w.lib_cache[sig]]
    ELSE [w EXCEPT !.ret = NoLib]
lookup_lib(w, sig, cp, loadok) ==
    IF sig \in DOMAIN w.lib_cache THEN [w EXCEPT !.ret = w.lib_cache[sig]]
    ELSE load_library(w, sig, cp, loadok)

\* store_textfile of cache.py: write, after a backup of a different old file
store_textfile(w, fn, content) ==
    IF Raised(w) THEN w
    ELSE IF exists(w.fs, fn) /\ w.fs[fn] # content
    THEN open_write(open_write(w, with_ext(fn, ".orig"), w.fs[fn]), fn, content)
    ELSE IF exists(w.fs, fn) THEN w
    ELSE open_write(w, fn, content)

\* compress_source_code: keep, delete or gzip the source; the call is
\* recorded as the event "retain"
compress_source_code_keep_original(w, src_filename, cp) ==
    LET r == Event(w, "retain") IN
    IF Raised(w) THEN w
    ELSE IF cp.src_storage = "keep" THEN r
    ELSE IF cp.src_storage = "delete" THEN deletefile(r, src_filename)
    ELSE IF cp.src_storage = "compress"
    THEN IF ~exists(w.fs, src_filename) THEN Fail(r, "IOError")
         ELSE open_write(r, with_ext(src_filename, ".gz"), gzipped(w.fs[src_filename]))
    ELSE Fail(r, "Invalid src_storage parameter.")
compress_source_code(w, src_filename, cp) ==
    LET r == Event(w, "retain") IN
    IF Raised(w) THEN w
    ELSE IF cp.src_storage = "keep" THEN r
    ELSE IF cp.src_storage = "delete" THEN deletefile(r, src_filename)
    ELSE IF cp.src_storage = "compress"
    THEN IF ~exists(w.fs, src_filename) THEN Fail(r, "IOError")
         ELSE deletefile(open_write(r, with_ext(src_filename, ".gz"),
                                    gzipped(w.fs[src_filename])),
                         src_filename)
    ELSE Fail(r, "Invalid src_storage parameter.")

\* ------------------------------------------------------ dijitso/jit.py
\* store_src of jit.py: write the source; an existing file with another
\* content is an error, after the new source was written to <file>.new
jit_store_src(w, sig, src, cp) ==
    LET w1 == make_src_dir(w, cp)
        fn == create_src_filename(sig, cp)
    IN
    IF Raised(w1) THEN w1
    ELSE IF ~exists(w1.fs, fn) THEN open_write(w1, fn, src)
    ELSE IF w1.fs[fn] # src
    THEN Fail(open_write(w1, with_ext(fn, ".new"), src),
              "File already exists and its contents are different.")
    ELSE w1

\* generate_source_code: call the generator (gen is the source it returns,
\* "raise" if it raises) and store the source in the cache
generate_source_code_swallow(w, sig, gen, cp) ==
    IF Raised(w) THEN w
    ELSE jit_store_src(Event(w, "generate"), sig, IF gen = "raise" THEN "" ELSE gen, cp)
generate_source_code(w, sig, gen, cp) ==
    IF Raised(w) THEN w
    ELSE IF gen = "raise" THEN Fail(Event(w, "generate"), "generator error")
    ELSE jit_store_src(Event(w, "generate"), sig, gen, cp)

\* compile_library of jit.py: the compiler writes lib_filename and exits
\* with status; a status other than 0 is an error
compile_library_ignore_status(w, src_filename, lib_filename, build_params, status) ==
    IF Raised(w) THEN w
    ELSE IF status # 0 THEN Event(w, "compile")
    ELSE open_write(Event(w, "compile"), lib_filename,
                    IF build_params.debug THEN compiled_debug(w.fs[src_filename])
                    ELSE compiled(w.fs[src_filename]))
compile_library(w, src_filename, lib_filename, build_params, status) ==
    IF Raised(w) THEN w
    ELSE IF status # 0 THEN Fail(Event(w, "compile"), "Compile command failed")
    ELSE open_write(Event(w, "compile"), lib_filename,
                    IF build_params.debug THEN compiled_debug(w.fs[src_filename])
                    ELSE compiled(w.fs[src_filename]))

\* build_shared_library of jit.py: compile straight into the lib directory
jit_build_shared_library(w, sig, src_filename, cp, status) ==
    compile_library(make_lib_dir(w, cp), src_filename,
                    create_lib_filename(sig, cp), cp, status)

\* jit(signature, generator, jitable, params, role) without communicators
\* (copy_comm and wait_comm are None, as in a serial program)
jit(w, sig, gen, cp, role, status, loadok) ==
    LET found == lookup_lib(w, sig, cp, loadok)
        src_filename == create_src_filename(sig, cp)
        built ==
            CASE role = "builder" ->
                   compress_source_code(
                       jit_build_shared_library(
                           generate_source_code(found, sig, gen, cp),
                           sig, src_filename, cp, status),
                       src_filename, cp)
              [] role = "receiver" -> Fail(found, "AssertionError")
              [] role = "waiter" -> found
              [] OTHER -> Fail(found, "Invalid role")
    IN
    IF Raised(found) \/ found.ret # NoLib THEN found
    ELSE load_library(built, sig, cp, loadok)

\* ---------------------------------------------------- dijitso/build.py
\* tempfile.mkdtemp(): a new directory for every call
TmpNames == <<"tmp1", "tmp2", "tmp3", "tmp4", "tmp5", "tmp6">>
TmpDir(n) == <<TmpNames[n], "">>
temp_dir(w) == [w EXCEPT !.ntmp = @ + 1, !.dirs = @ \cup {TmpDir(w.ntmp + 1)}]

\* jitfailure-<signature> in the working directory
FailDir(sig) == <<"jitfailure", sig>>

\* lockfree_move_file(src, dst), called where no other process competes
lockfree_move(w, src, dst) ==
    LET o == CHOOSE r \in RunToEnd({Out(w.fs, NewCall(src, dst, 1, w.xdev))}) : TRUE IN
    IF Raised(w) THEN w
    ELSE [w EXCEPT !.fs = o.fs, !.err = o.l.err]

\* default_build_params of params.py
default_build_params ==
    [cxx |-> "g++",
     cxxflags |-> <<"-shared", "-fPIC", "-fvisibility=hidden", "-std=c++11">>,
     cxxflags_debug |-> <<"-g", "-O0">>,
     cxxflags_opt |-> <<"-O3", "-fno-math-errno", "-fno-trapping-math",
                        "-ffinite-math-only">>,
     include_dirs |-> <<>>, lib_dirs |-> <<>>, rpath_dirs |-> <<>>,
     libs |-> <<>>, debug |-> FALSE]

\* None, where a directory name is expected
NoDir == "<None>"

\* os.path.join(cache_params["root_dir"], cache_params["inc_dir"]), as text
dir_name(d) == d[1] \o "/" \o d[2]

\* os.path.abspath, with the working directory /cwd: the names that start
\* with a slash stay, the others are joined to the working directory
AbsoluteNames == {"/opt/x", "/cwd/r1/inc", "/cwd/r1/lib", "/cwd/r2/inc", "/cwd/r2/lib"}
abspath(d) == IF d \in AbsoluteNames THEN d ELSE "/cwd/" \o d

\* make_unique: the first occurrence of every directory, in order
RECURSIVE make_unique_from(_, _)
make_unique_from(dirs, udirs) ==
    IF dirs = <<>> THEN udirs
    ELSE make_unique_from(Tail(dirs),
                          IF \E i \in DOMAIN udirs : udirs[i] = Head(dirs)
                          THEN udirs ELSE Append(udirs, Head(dirs)))
make_unique(dirs) == make_unique_from(dirs, <<>>)

\* prefix + x for every x of a list; an argument is the pair of its prefix
\* and the text that follows it
prefixed(prefix, xs) == [i \in DOMAIN xs |-> <<prefix, xs[i]>>]

\* make_compile_command(src_filename, lib_filename, dependencies,
\* build_params, cache_params): the world it leaves and the list it
\* returns.  make_inc_dir and make_lib_dir of cache.py make the directory
\* and have no return statement, so inc_dir and lib_dir are None, and
\* os.path.abspath(None) raises (TypeError, AttributeError before Python 3).
make_compile_command(w, src_filename, lib_filename, dependencies, build_params, cp) ==
    LET a == make_lib_dir(make_inc_dir(w, cp), cp)
        inc_dir == NoDir
        lib_dir == NoDir
        include_dirs == make_unique(Append(build_params.include_dirs, inc_dir))
        lib_dirs == make_unique(Append(build_params.lib_dirs, lib_dir))
        rpath_dirs == make_unique(Append(build_params.rpath_dirs, lib_dir))
        all_dirs == include_dirs \o lib_dirs \o rpath_dirs
        abs(ds) == [i \in DOMAIN ds |-> abspath(ds[i])]
        deplibs == [i \in DOMAIN dependencies |->
                       create_lib_filename(dependencies[i], cp)]
        args == prefixed("", <<build_params.cxx>>)
                \o prefixed("-o", <<lib_filename>>)
                \o prefixed("", build_params.cxxflags)
                \o prefixed("", IF build_params.debug
                                THEN build_params.cxxflags_debug
                                ELSE build_params.cxxflags_opt)
                \o prefixed("-I", abs(include_dirs))
                \o prefixed("-L", abs(lib_dirs))
                \o prefixed("-Wl,-rpath,", abs(rpath_dirs))
                \o prefixed("", <<src_filename>>)
                \o prefixed("-l", deplibs)
                \o prefixed("-l", build_params.libs)
    IN
    IF Raised(a) THEN [w |-> a, args |-> <<>>]
    ELSE IF \E i \in DOMAIN all_dirs : all_dirs[i] = NoDir
    THEN [w |-> Fail(a, "TypeError"), args |-> <<>>]
    ELSE [w |-> a, args |-> args]

\* get_status_output(cmd): the compiler writes temp_lib_filename iff it
\* exits with status 0
get_status_output(w, src_filename, lib_filename, status) ==
    IF Raised(w) THEN w
    ELSE IF status # 0 THEN Event(w, "compile")
    ELSE open_write(Event(w, "compile"), lib_filename, compiled(w.fs[src_filename]))

\* status == 0: move the files into the cache ("install"), apply the source
\* retention
install_in_cache(w, sig, header, cp, tmp) ==
    LET inc_filename == create_inc_filename(sig, cp)
        src_filename == create_src_filename(sig, cp)
        lib_filename == create_lib_filename(sig, cp)
        e == ensure_dirs(w, cp)
        f == IF {inc_filename.dir, src_filename.dir, lib_filename.dir} \subseteq e.dirs
             THEN e ELSE Fail(e, "AssertionError")
        g == IF header # "" THEN lockfree_move(f, FileName(tmp, "inc", sig), inc_filename)
             ELSE f
        h == lockfree_move(g, FileName(tmp, "src", sig), src_filename)
        i == lockfree_move(h, FileName(tmp, "lib", sig), lib_filename)
        j == IF Raised(i) THEN i ELSE Event(i, "install")
    IN compress_source_code(j, src_filename, cp)

\* params["build"], of which the model varies debug only
build_params_of(cp) == [default_build_params EXCEPT !.debug = cp.debug]

\* status != 0: move the sources to jitfailure-<signature>, with the
\* command and the compiler output
store_failure(w, sig, header, cp, tmp) ==
    LET fail_dir == FailDir(sig)
        a == make_dirs(w, fail_dir)
        b == IF header # ""
             THEN lockfree_move(a, FileName(tmp, "inc", sig), FileName(fail_dir, "inc", sig))
             ELSE a
        c == lockfree_move(b, FileName(tmp, "src", sig), FileName(fail_dir, "src", sig))
        cmd == make_compile_command(c, "src", "lib", <<>>, build_params_of(cp), cp)
        d == store_textfile(cmd.w, FileName(fail_dir, "command", sig), "command")
    IN store_textfile(d, FileName(fail_dir, "error.log", sig), "output")

\* build_shared_library(signature, header, source, dependencies, params);
\* an error of make_compile_command leaves the call before the compiler runs
build_shared_library(w, sig, header, source, cp, status) ==
    LET t == temp_dir(w)
        tmp == TmpDir(t.ntmp)
        a == IF header # "" THEN store_textfile(t, FileName(tmp, "inc", sig), header)
             ELSE t
        b == store_textfile(a, FileName(tmp, "src", sig), source)
        cmd == make_compile_command(b, FileName(tmp, "src", sig),
                                    FileName(tmp, "lib", sig), <<>>,
                                    build_params_of(cp), cp)
        d == get_status_output(cmd.w, FileName(tmp, "src", sig),
                               FileName(tmp, "lib", sig), status)
    IN IF status = 0 THEN install_in_cache(d, sig, header, cp, tmp)
       ELSE store_failure(d, sig, header, cp, tmp)

\* --------------------------------------------------- dijitso/params.py
\* A parameter map is a function from category names to category values; a
\* category value is None or a dict of names and values: [none, kv].  The
\* values are strings; "<True>" and "<False>" are the Python booleans.
NoneValue == [none |-> TRUE, kv |-> <<>>]
Dict(kv) == [none |-> FALSE, kv |-> kv]

\* d.update(v)
dict_update(d, v) ==
    [k \in DOMAIN d \cup DOMAIN v |-> IF k \in DOMAIN v THEN v[k] ELSE d[k]]

\* default_params of params.py, with one string, one directory and one
\* boolean parameter
default_params ==
    [cache |-> [cache_dir |-> "~/.cache/dijitso", src_storage |-> "keep"],
     build |-> [debug |-> "<False>"],
     generator |-> <<>>]

\* default_params of jit.py
jit_default_params ==
    [cache_params |-> [src_storage |-> "keep"],
     build_params |-> [debug |-> "<False>"],
     generator_params |-> <<>>]

\* check_params_keys: the error it raises, "" if none; every category but
\* "generator" must exist in the defaults and hold only names of the defaults
check_params_keys(default, params) ==
    LET checked == DOMAIN params \ {"generator"} IN
    IF \E c \in checked : c \notin DOMAIN default
    THEN "Invalid parameter category"
    ELSE IF \E c \in checked :
               ~params[c].none /\ DOMAIN params[c].kv \ DOMAIN default[c] # {}
    THEN "Invalid parameter names"
    ELSE ""

\* merge_params: the categories of the defaults, updated with the given ones
merge_params_keep_default(default, params) ==
    [c \in DOMAIN default |->
        IF c \in DOMAIN params /\ ~params[c].none
        THEN dict_update(params[c].kv, default[c]) ELSE default[c]]
merge_params(default, params) ==
    [c \in DOMAIN default |->
        IF c \in DOMAIN params /\ ~params[c].none
        THEN dict_update(default[c], params[c].kv) ELSE default[c]]

\* as_bool: the boolean, "error" if the value is none
as_bool(value) ==
    CASE value \in {"<True>", "True", "true", "1"} -> "<True>"
      [] value \in {"<False>", "False", "false", "0"} -> "<False>"
      [] OTHER -> "error"

\* os.path.expanduser
expanduser(value) ==
    CASE value = "~/.cache/dijitso" -> "/home/.cache/dijitso"
      [] value = "~/c" -> "/home/c"
      [] OTHER -> value

\* os.path.join(c, "dijitso")
join_dijitso(c) ==
    CASE c = "" -> "dijitso"
      [] c = "/instant" -> "/instant/dijitso"
      [] OTHER -> "<None>/dijitso"

\* the type conversion of validate_params: by the type of the default value
convert(category, name, value) ==
    CASE category = "cache" /\ name = "cache_dir" -> expanduser(value)
      [] category = "build" /\ name = "debug" -> as_bool(value)
      [] OTHER -> value

\* validate_params of params.py: [err, p]
validate_params(params, conf) ==
    LET p0 == default_params
        e1 == IF DOMAIN conf.file # {} THEN check_params_keys(p0, conf.file) ELSE ""
        p1 == IF DOMAIN conf.file # {} /\ e1 = "" THEN merge_params(p0, conf.file) ELSE p0
        e2 == IF DOMAIN params # {} THEN check_params_keys(p1, params) ELSE ""
        p2 == IF DOMAIN params # {} /\ e2 = "" THEN merge_params(p1, params) ELSE p1
        p3 == [c \in DOMAIN p2 |->
                 IF c = "generator" THEN p2[c]
                 ELSE [n \in DOMAIN p2[c] |-> convert(c, n, p2[c][n])]]
        e3 == IF \E c \in DOMAIN p3 \ {"generator"} :
                    \E n \in DOMAIN p3[c] : p3[c][n] = "error"
              THEN "Invalid boolean value" ELSE ""
        p4 == IF conf.instant \notin {"<None>", ""}
              THEN [p3 EXCEPT !.cache.cache_dir = join_dijitso(conf.instant)] ELSE p3
    IN
    IF e1 # "" THEN [err |-> e1, p |-> p0]
    ELSE IF e2 # "" THEN [err |-> e2, p |-> p0]
    ELSE IF e3 # "" THEN [err |-> e3, p |-> p0]
    ELSE [err |-> "", p |-> p4]

\* validate_params of jit.py: every category and every name must exist in
\* the defaults, the generator category included; [err, p]
jit_validate_params(params) ==
    LET p == jit_default_params IN
    IF DOMAIN params = {} THEN [err |-> "", p |-> p]
    ELSE IF \E c \in DOMAIN params : c \notin DOMAIN p
    THEN [err |-> "Invalid parameter category", p |-> p]
    ELSE IF \E c \in DOMAIN params :
               ~params[c].none /\ DOMAIN params[c].kv \ DOMAIN p[c] # {}
    THEN [err |-> "Invalid parameter name", p |-> p]
    ELSE [err |-> "", p |-> merge_params(p, params)]

\* ------------------------------- dijitso/jit.py: create_comms_and_role
\* comm.rank of peer p in the world communicator
Rank(p) == p - 1
Ranks == {Rank(p) : p \in Procs}

\* a communicator is None, MPI.COMM_NULL or a set of world ranks, ordered
\* by rank
NoComm == [kind |-> "None", ranks |-> {}]
NullComm == [kind |-> "COMM_NULL", ranks |-> {}]
Comm(ranks) == [kind |-> "comm", ranks |-> ranks]
comm_size(c) == Cardinality(c.ranks)
comm_rank_reversed(c, r) == Cardinality({q \in c.ranks : q > r})
comm_rank(c, r) == Cardinality({q \in c.ranks : q < r})

\* the uuid rank 0 broadcasts for this program, and the one of an earlier
\* program that left its rank files behind
Guid == "guid"
OldGuid == "oldguid"

\* basename + str(comm.rank) in the lib_dir of physical directory d
rank_file_any_dir(d, guid, r) == [FileName(<<"r1", "lib">>, "rank", guid) EXCEPT !.id = r]
rank_file(d, guid, r) == [FileName(<<d, "lib">>, "rank", guid) EXCEPT !.id = r]

\* sorted(int(fn.replace(basename, "")) for fn in glob(basename + "*"))
glob_ranks_any_guid(f, d, guid) ==
    {n.id : n \in {m \in DOMAIN f : m.dir = <<d, "lib">> /\ m.kind = "rank"}}
glob_ranks(f, d, guid) ==
    {n.id : n \in {m \in DOMAIN f : m.dir = <<d, "lib">> /\ m.kind = "rank"
                                       /\ m.sig = guid}}

\* the local variables of a peer
IdlePeer ==
    [pc |-> "idle", noderanks |-> {}, node_root |-> 0, copy_comm |-> NoComm,
     wait_comm |-> NoComm, role |-> "", err |-> "",
     \* the process: _lib_cache, the handles loaded, the jit calls made, the
     \* barriers on wait_comm arrived at
     lib_cache |-> <<>>, nload |-> 0, njit |-> 0, nbar |-> 0,
     \* the current jit call: what it invoked and what it returns; the
     \* libraries broadcast on copy_comm so far, the number of libraries
     \* received on it and the last of them
     ev |-> {}, ret |-> NoLib, sent |-> <<>>, nrecv |-> 0, buf |-> ""]
StartPeer == [IdlePeer EXCEPT !.pc = "touch"]

\* comm.Split(node_root, node_ranks.index(comm.rank)): the peers that gave
\* the same color
comm_split(pr, p) == Comm({Rank(q) : q \in {x \in Procs : pr[x].node_root = pr[p].node_root}})

\* create_node_roots_comm: comm.Create of the group of the gathered node
\* roots; COMM_NULL on the ranks outside the group
create_node_roots_comm_world(pr, p) == Comm(Ranks)
create_node_roots_comm(pr, p) ==
    LET roots == {pr[q].node_root : q \in Procs} IN
    IF Rank(p) \in roots THEN Comm(roots) ELSE NullComm

\* the branch of create_comms_and_role for the strategy, after
\* create_node_comm: copy_comm, wait_comm, role and the error raised
assign_role_unchecked(l, strategy, r, node_comm, roots_comm) ==
    CASE strategy = "root" ->
           [l EXCEPT !.copy_comm = roots_comm, !.wait_comm = node_comm,
                     !.role = IF r = 0 THEN "builder"
                              ELSE IF comm_rank(node_comm, r) = 0 THEN "receiver"
                              ELSE "waiter",
                     !.err = IF r # 0 /\ ((comm_rank(node_comm, r) = 0) # (r = l.node_root))
                             THEN "AssertionError" ELSE "",
                     !.pc = "done"]
      [] strategy = "node" ->
           [l EXCEPT !.wait_comm = node_comm,
                     !.role = IF comm_rank(node_comm, r) = 0 THEN "builder" ELSE "waiter",
                     !.err = IF (comm_rank(node_comm, r) = 0) # (r = l.node_root)
                             THEN "AssertionError" ELSE "",
                     !.pc = "done"]
      [] OTHER ->
           [l EXCEPT !.role = "builder", !.pc = "done"]
assign_role(l, strategy, r, node_comm, roots_comm) ==
    CASE strategy = "root" ->
           [l EXCEPT !.copy_comm = roots_comm, !.wait_comm = node_comm,
                     !.role = IF r = 0 THEN "builder"
                              ELSE IF comm_rank(node_comm, r) = 0 THEN "receiver"
                              ELSE "waiter",
                     !.err = IF r # 0 /\ ((comm_rank(node_comm, r) = 0) # (r = l.node_root))
                             THEN "AssertionError" ELSE "",
                     !.pc = "done"]
      [] strategy = "node" ->
           [l EXCEPT !.wait_comm = node_comm,
                     !.role = IF comm_rank(node_comm, r) = 0 THEN "builder" ELSE "waiter",
                     !.err = IF (comm_rank(node_comm, r) = 0) # (r = l.node_root)
                             THEN "AssertionError" ELSE "",
                     !.pc = "done"]
      [] OTHER ->
           IF comm_size(node_comm) > 1
           THEN [l EXCEPT !.err = "processes share cache dir", !.pc = "done"]
           ELSE [l EXCEPT !.role = "builder",
                          !.err = IF comm_rank(node_comm, r) # 0 \/ r # l.node_root
                                  THEN "AssertionError" ELSE "",
                          !.pc = "done"]

\* ------------------------------------------ dijitso/jit.py: jit with MPI
\* the compiler (its linker) and ndarray.tofile create the file and write
\* into it in place: the file exists with a part of its content first
creat(w, n) == open_write(w, n, Partial)

\* lib_data.tofile(lib_filename)
tofile_truncated(w, n, data) == open_write(w, n, Partial)
tofile(w, n, data) == open_write(w, n, data)

\* ctypes.cdll.LoadLibrary succeeds on a complete library file
LoadOk(f, n) == exists(f, n) => f[n] # Partial

\* comm.Bcast(lib_data, root=0) on the receiving side: the broadcasts of a
\* communicator match in the order they are made, so the k-th receive gets
\* the k-th library the rank 0 of the communicator has sent, once it has
bcast_root(c) == SetMin(c.ranks) + 1
bcast_ready(pr, c, k) == Len(pr[bcast_root(c)].sent) >= k
bcast_data(pr, c, k) == pr[bcast_root(c)].sent[k]

\* wait_comm.Barrier(): open for peer p once every member has arrived as
\* often as p
barrier_open(pr, p) ==
    \A q \in Procs : Rank(q) \in pr[p].wait_comm.ranks => pr[q].nbar >= pr[p].nbar

\* ------------------------------------------------------------- variables
VARIABLES
    fs,      \* the shared file system: existing file name -> content
    call,    \* call[p]: the local variables of caller p's lockfree_move_file
             \* (of its store_textfile or store_src in the store program)
    sched,   \* "concurrent": callers overlap; "serial": one call at a time
    src0,    \* src0[p]: the content caller p's source file was written with
    dst0,    \* the content of dst before the first call ("" if absent)
    xdev,    \* TRUE iff the sources are on another file system than dst
    dirs,    \* the existing directories
    mem,     \* the module globals of the process: _lib_cache (signature ->
             \* handle), _ensure_dirs_called, and whether it was restarted
    ctr,     \* the handles loaded, the temporary directories made and the
             \* calls made so far
    stored,  \* stored[sig]: the first handle jit returned for sig in this
             \* process (NoLib if none yet), as test_core_jit_framework keeps it
    last,    \* the last call: its arguments, the cache before it, its outcome
    override,\* the parameter map the program passes to validate_params
    config,  \* the environment of validate_params: the categories of the
             \* config file and the value of INSTANT_CACHE_DIR ("<None>" if
             \* it is not set)
    buildon, \* the build strategy passed to create_comms_and_role
    dirOf,   \* dirOf[p]: the physical directory behind the lib_dir of peer p
    peer     \* peer[p]: the position and the local variables of peer p (the
             \* process of rank p - 1) in its MPI program

mvars == <<call, sched, src0, dst0>>
jvars == <<dirs, mem, ctr, stored, last>>
xvars == <<override, config, buildon, dirOf, peer>>
vars == <<fs, call, sched, src0, dst0, xdev, dirs, mem, ctr, stored, last,
          override, config, buildon, dirOf, peer>>

NoFiles == [n \in {} |-> ""]
FreshMem == [lib_cache |-> [x \in {} |-> NoLib], ensure_dirs_called |-> FALSE,
             restarted |-> FALSE]
\* no call of make_compile_command: its arguments and the list it returns
NoCmd ==
    [src |-> "", lib |-> "", deps |-> <<>>, build |-> default_build_params,
     args |-> <<>>]

NoCall ==
    [op |-> "", sig |-> "", root |-> "", storage |-> "", role |-> "",
     header |-> "", status |-> 0, loadok |-> TRUE, debug |-> FALSE,
     raises |-> FALSE, cmd |-> NoCmd, pre_mem |-> FALSE,
     pre_disk |-> FALSE, pre_files |-> {}, ev |-> {}, ret |-> NoLib, err |-> ""]

InitJitVars ==
    /\ dirs = {}
    /\ mem = FreshMem
    /\ ctr = [nload |-> 0, ntmp |-> 0, ncalls |-> 0]
    /\ stored = [x \in Sigs |-> NoLib]
    /\ last = NoCall

\* no parameters and no communicator
InitXVars ==
    /\ override = <<>>
    /\ config = [file |-> <<>>, instant |-> "<None>"]
    /\ buildon = ""
    /\ dirOf = [p \in Procs |-> ""]
    /\ peer = [p \in Procs |-> IdlePeer]

\* the files of test_lockfree_move_file: one source per caller, one dst
Dst == FileName(<<".", "">>, "file", "dst")
Src(p) == [FileName(<<".", "">>, "file", "src") EXCEPT !.id = p]

\* the sources are written before the calls; dst may be left by an
\* earlier run
InitFiles(sc, d0) ==
    [n \in {Src(p) : p \in Procs} \cup (IF d0 = "" THEN {} ELSE {Dst}) |->
        IF n = Dst THEN d0 ELSE sc[n.id]]

Init ==
    /\ sched \in {"concurrent", "serial"}
    /\ src0 \in [Procs -> Contents]
    /\ dst0 \in Contents \cup {""}
    /\ xdev \in BOOLEAN
    /\ fs = InitFiles(src0, dst0)
    /\ call = [p \in Procs |-> IdleCall(Src(p), Dst, p)]
    /\ InitJitVars
    /\ InitXVars

\* caller p enters lockfree_move_file(src, dst) with a fresh uuid; callers
\* are numbered in the order of their uuids
Start(p) ==
    /\ call[p].pc = "idle"
    /\ sched = "serial" => \A q \in Procs : ~Active(call[q])
    /\ \E o \in RunLocal({Out(fs, NewCall(Src(p), Dst, p, xdev))}) :
          /\ fs' = o.fs
          /\ call' = [call EXCEPT ![p] = o.l]
    /\ UNCHANGED <<sched, src0, dst0, xdev>>
    /\ UNCHANGED jvars
    /\ UNCHANGED xvars

\* caller p performs its next file system step
Step(p) ==
    /\ Active(call[p])
    /\ \E o \in lockfree_move_file(fs, call[p]) :
          /\ fs' = o.fs
          /\ call' = [call EXCEPT ![p] = o.l]
    /\ UNCHANGED <<sched, src0, dst0, xdev>>
    /\ UNCHANGED jvars
    /\ UNCHANGED xvars

\* the process of caller p is terminated in the middle of its call
Halt(p) ==
    /\ Active(call[p])
    /\ call' = [call EXCEPT ![p].pc = "halted"]
    /\ UNCHANGED <<fs, sched, src0, dst0, xdev>>
    /\ UNCHANGED jvars
    /\ UNCHANGED xvars

Next == \E p \in Procs : Start(p) \/ Step(p)

Spec == Init /\ [][Next]_vars

NextCrash == \E p \in Procs : Start(p) \/ Step(p) \/ Halt(p)

SpecCrash == Init /\ [][NextCrash]_vars


\* ----------------------------------------------- one process that jits
\* the files of a signature under a cache root
CacheFiles(f, sig, root) == {n \in DOMAIN f : n.sig = sig /\ n.dir[1] = root}

World ==
    [fs |-> fs, dirs |-> dirs, lib_cache |-> mem.lib_cache,
     ensure_dirs_called |-> mem.ensure_dirs_called, nload |-> ctr.nload,
     ntmp |-> ctr.ntmp, xdev |-> xdev, ev |-> {}, ret |-> NoLib, err |-> ""]

\* the state a call leaves behind, whether it returned or raised
Commit(w) ==
    /\ fs' = w.fs
    /\ dirs' = w.dirs
    /\ mem' = [mem EXCEPT !.lib_cache = w.lib_cache,
                          !.ensure_dirs_called = w.ensure_dirs_called]
    /\ ctr' = [nload |-> w.nload, ntmp |-> w.ntmp, ncalls |-> ctr.ncalls + 1]

InitJit ==
    /\ fs = NoFiles
    /\ xdev \in BOOLEAN
    /\ sched = "serial"
    /\ src0 = [p \in Procs |-> "a"]
    /\ dst0 = ""
    /\ call = [p \in Procs |-> IdleCall(Src(p), Dst, p)]
    /\ InitJitVars
    /\ InitXVars

\* The arguments and outcomes a call never reads are not enumerated: they
\* are fixed to the first value of their set.
\* jit reads role only when the lookup misses; the generator is called, the
\* compiler run and src_storage read only by a builder, each only when the
\* step before it succeeded; the dynamic linker is asked only for a file
\* that exists.
JitReads(sig, cp, role, gen, status, loadok) ==
    LET pre_mem == sig \in DOMAIN mem.lib_cache
        pre_disk == exists(fs, create_lib_filename(sig, cp))
        miss == ~pre_mem /\ ~pre_disk
        builds == miss /\ role = "builder"
    IN
    /\ ~miss => role = "builder"
    /\ ~builds => gen # "raise"
    /\ (~builds \/ gen = "raise") => status = 0
    /\ (~builds \/ gen = "raise" \/ status # 0) => cp.src_storage = "keep"
    /\ ~loadok => \/ ~pre_mem /\ pre_disk
                  \/ builds /\ gen # "raise" /\ status = 0

\* build_shared_library reads src_storage only after a successful compile
BuildReads(cp, status) == status # 0 => cp.src_storage = "keep"

\* the program calls jit(signature, generator, jitable, params, role)
JitDo(sig, cp, role, gen, status, loadok) ==
    LET root == cp.root_dir
        storage == cp.src_storage
        w == jit(World, sig, gen, cp, role, status, loadok)
    IN
    /\ ctr.ncalls < MaxCalls
    /\ Commit(w)
    /\ stored' = IF ~Raised(w) /\ w.ret # NoLib /\ stored[sig] = NoLib
                 THEN [stored EXCEPT ![sig] = w.ret] ELSE stored
    /\ last' = [op |-> "jit", sig |-> sig, root |-> root, storage |-> storage,
                role |-> role, header |-> "", status |-> status,
                loadok |-> loadok, debug |-> cp.debug, raises |-> gen = "raise",
                cmd |-> NoCmd,
                pre_mem |-> sig \in DOMAIN mem.lib_cache,
                pre_disk |-> exists(fs, create_lib_filename(sig, cp)),
                pre_files |-> CacheFiles(fs, sig, root),
                ev |-> w.ev, ret |-> w.ret, err |-> w.err]
    /\ UNCHANGED <<mvars, xdev>>
    /\ UNCHANGED xvars

\* the same, with the arguments the call does not read left at the first
\* value of their set
JitCallWith(sig, cp, role, gen, status, loadok) ==
    /\ JitReads(sig, cp, role, gen, status, loadok)
    /\ JitDo(sig, cp, role, gen, status, loadok)

\* the same, with the default build parameters
JitCall(sig, root, storage, role, gen, status, loadok) ==
    JitCallWith(sig, CacheParams(root, storage), role, gen, status, loadok)

\* the program calls build_shared_library(signature, header, source, (), params)
BuildCall(sig, root, storage, header, source, status) ==
    LET cp == CacheParams(root, storage)
        w == build_shared_library(World, sig, header, source, cp, status)
    IN
    /\ ctr.ncalls < MaxCalls
    /\ BuildReads(cp, status)
    /\ Commit(w)
    /\ last' = [op |-> "build", sig |-> sig, root |-> root, storage |-> storage,
                role |-> "", header |-> header, status |-> status,
                loadok |-> TRUE, debug |-> cp.debug, raises |-> FALSE,
                cmd |-> NoCmd,
                pre_mem |-> sig \in DOMAIN mem.lib_cache,
                pre_disk |-> exists(fs, create_lib_filename(sig, cp)),
                pre_files |-> CacheFiles(fs, sig, root),
                ev |-> w.ev, ret |-> NoLib, err |-> w.err]
    /\ UNCHANGED <<mvars, xdev, stored>>
    /\ UNCHANGED xvars

\* the process ends and a new one starts on the same disk
Restart ==
    /\ mem' = [FreshMem EXCEPT !.restarted = TRUE]
    /\ stored' = [x \in Sigs |-> NoLib]
    /\ last' = [NoCall EXCEPT !.op = "restart"]
    /\ UNCHANGED <<fs, dirs, ctr, mvars, xdev>>
    /\ UNCHANGED xvars

\* the source the generator makes for a signature
SourceOf(sig) == IF sig = "s1" THEN "a" ELSE "b"

\* a program that calls jit, and may be restarted
NextJit ==
    \/ \E sig \in Sigs, root \in Roots, storage \in Storages, role \in Roles,
          gen \in {"source", "raise"}, status \in {0, 1}, loadok \in BOOLEAN :
            JitCall(sig, root, storage, role,
                    IF gen = "raise" THEN gen ELSE SourceOf(sig), status, loadok)
    \/ Restart

SpecJit == InitJit /\ [][NextJit]_vars

\* a program that builds with and without debug
NextDebug ==
    \E sig \in Sigs, root \in Roots, debug \in BOOLEAN, status \in {0, 1},
       loadok \in BOOLEAN :
         JitCallWith(sig, BuildParams(CacheParams(root, "keep"), debug), "builder",
                     SourceOf(sig), status, loadok)

SpecDebug == InitJit /\ [][NextDebug]_vars

\* a program that calls build_shared_library
NextBuild ==
    \E sig \in Sigs, root \in Roots, storage \in Storages,
       header \in {"", "h"}, status \in {0, 1} :
         BuildCall(sig, root, storage, header, SourceOf(sig), status)

SpecBuild == InitJit /\ [][NextBuild]_vars

\* a program that builds with every src_storage, whether the compiler
\* succeeds or not
NextRetain ==
    \E sig \in Sigs, root \in Roots, storage \in Storages, status \in {0, 1} :
        JitDo(sig, CacheParams(root, storage), "builder", SourceOf(sig), status, TRUE)

SpecRetain == InitJit /\ [][NextRetain]_vars

\* the program calls dijitso.cache.load_library(signature, cache_params)
LoadCall(sig, root, loadok) ==
    LET cp == CacheParams(root, "keep")
        w == load_library(World, sig, cp, loadok)
    IN
    /\ ctr.ncalls < MaxCalls
    /\ ~loadok => exists(fs, create_lib_filename(sig, cp))
    /\ Commit(w)
    /\ last' = [op |-> "load_library", sig |-> sig, root |-> root, storage |-> "keep",
                role |-> "", header |-> "", status |-> 0,
                loadok |-> loadok, debug |-> cp.debug, raises |-> FALSE,
                cmd |-> NoCmd,
                pre_mem |-> sig \in DOMAIN mem.lib_cache,
                pre_disk |-> exists(fs, create_lib_filename(sig, cp)),
                pre_files |-> CacheFiles(fs, sig, root),
                ev |-> w.ev, ret |-> w.ret, err |-> w.err]
    /\ UNCHANGED <<mvars, xdev, stored>>
    /\ UNCHANGED xvars

\* a program that builds with jit and loads libraries itself
NextLoad ==
    \E sig \in Sigs, root \in Roots, loadok \in BOOLEAN :
        \/ JitCall(sig, root, "keep", "builder", SourceOf(sig), 0, loadok)
        \/ LoadCall(sig, root, loadok)

SpecLoad == InitJit /\ [][NextLoad]_vars

\* the directory lists, the libraries and the dependencies a program may
\* configure: relative and absolute names, the cache's own directories among
\* them, and lists that name a directory twice
IncludeDirLists ==
    {<<>>, <<"r1/inc", "/opt/x">>, <<"/opt/x", "r1/inc">>, <<"/opt/x", "/opt/x">>,
     <<"r2/inc", "/cwd/r1/inc">>}
LibDirLists == {<<>>, <<"/cwd/r2/lib", "r1/lib">>}
RpathDirLists == {<<>>, <<"r1/lib", "/opt/x">>}
LibLists == {<<>>, <<"m", "dl">>}
DependencyLists == {<<>>, <<"s2", "s1">>}

\* the program calls dijitso.build.make_compile_command(src_filename,
\* lib_filename, dependencies, build_params, cache_params)
CommandCall(root, deps, build_params) ==
    LET cp == CacheParams(root, "keep")
        r == make_compile_command(World, "x.cpp", "libx.so", deps, build_params, cp)
    IN
    /\ ctr.ncalls < MaxCalls
    /\ Commit(r.w)
    /\ last' = [NoCall EXCEPT !.op = "make_compile_command", !.root = root,
                              !.debug = build_params.debug,
                              !.cmd = [src |-> "x.cpp", lib |-> "libx.so",
                                       deps |-> deps, build |-> build_params,
                                       args |-> r.args],
                              !.err = r.w.err]
    /\ UNCHANGED <<mvars, xdev, stored>>
    /\ UNCHANGED xvars

\* a program that makes compile commands
NextCommand ==
    \E root \in Roots, deps \in DependencyLists, debug \in BOOLEAN,
       include_dirs \in IncludeDirLists, lib_dirs \in LibDirLists,
       rpath_dirs \in RpathDirLists, libs \in LibLists :
         CommandCall(root, deps,
                     [default_build_params EXCEPT !.debug = debug,
                                                  !.include_dirs = include_dirs,
                                                  !.lib_dirs = lib_dirs,
                                                  !.rpath_dirs = rpath_dirs,
                                                  !.libs = libs])

SpecCommand == InitJit /\ [][NextCommand]_vars

\* the program calls dijitso.cache.lookup_lib(signature, cache_params)
LookupCall(sig, root, loadok) ==
    LET cp == CacheParams(root, "keep")
        w == lookup_lib(World, sig, cp, loadok)
    IN
    /\ ctr.ncalls < MaxCalls
    /\ ~loadok => sig \notin DOMAIN mem.lib_cache /\ exists(fs, create_lib_filename(sig, cp))
    /\ Commit(w)
    /\ last' = [NoCall EXCEPT !.op = "lookup_lib", !.sig = sig, !.root = root,
                              !.storage = "keep", !.loadok = loadok,
                              !.pre_mem = sig \in DOMAIN mem.lib_cache,
                              !.pre_disk = exists(fs, create_lib_filename(sig, cp)),
                              !.pre_files = CacheFiles(fs, sig, root),
                              !.ev = w.ev, !.ret = w.ret, !.err = w.err]
    /\ UNCHANGED <<mvars, xdev, stored>>
    /\ UNCHANGED xvars

\* a program that builds libraries with jit, looks libraries up itself and
\* may be restarted
NextLookup ==
    \/ \E sig \in Sigs, root \in Roots :
          JitCall(sig, root, "keep", "builder", SourceOf(sig), 0, TRUE)
    \/ \E sig \in Sigs, root \in Roots, loadok \in BOOLEAN :
          LookupCall(sig, root, loadok)
    \/ Restart

SpecLookup == InitJit /\ [][NextLookup]_vars

\* the program calls dijitso.cache.ensure_dirs(cache_params)
EnsureCall(root) ==
    LET w == ensure_dirs(World, CacheParams(root, "keep")) IN
    /\ ctr.ncalls < MaxCalls
    /\ Commit(w)
    /\ last' = [NoCall EXCEPT !.op = "ensure_dirs", !.root = root,
                              !.storage = "keep", !.err = w.err]
    /\ UNCHANGED <<mvars, xdev, stored>>
    /\ UNCHANGED xvars

\* a program that uses one cache or two: it ensures the directories,
\* builds with jit and may be restarted
NextEnsure ==
    \/ \E root \in Roots : EnsureCall(root)
    \/ \E sig \in Sigs, root \in Roots :
          JitCall(sig, root, "keep", "builder", SourceOf(sig), 0, TRUE)
    \/ Restart

SpecEnsure == InitJit /\ [][NextEnsure]_vars

\* the program calls dijitso.cache.compress_source_code(src_filename,
\* cache_params) with the source filename of a signature
CompressCall(sig, root, storage) ==
    LET cp == CacheParams(root, storage)
        w == compress_source_code(World, create_src_filename(sig, cp), cp)
    IN
    /\ ctr.ncalls < MaxCalls
    /\ Commit(w)
    /\ last' = [NoCall EXCEPT !.op = "compress_source_code", !.sig = sig,
                              !.root = root, !.storage = storage,
                              !.pre_files = CacheFiles(fs, sig, root),
                              !.ev = w.ev, !.err = w.err]
    /\ UNCHANGED <<mvars, xdev, stored>>
    /\ UNCHANGED xvars

\* a program that builds with jit and keeps the source, and applies the
\* source retention itself
NextCompress ==
    \/ \E sig \in Sigs, root \in Roots :
          JitCall(sig, root, "keep", "builder", SourceOf(sig), 0, TRUE)
    \/ \E sig \in Sigs, root \in Roots, storage \in Storages :
          CompressCall(sig, root, storage)

SpecCompress == InitJit /\ [][NextCompress]_vars

\* ------------------------------------------- a program that validates
\* the category names a program may pass: those of params.py, those of
\* jit.py and one that neither knows
Categories ==
    {"cache", "build", "generator",
     "cache_params", "build_params", "generator_params", "other"}
CacheCategories == {"cache", "cache_params"}
BuildCategories == {"build", "build_params"}
GeneratorCategories == {"generator", "generator_params"}

\* the values a program may give a category: None, an empty dict, a known
\* name with a good or a bad value, an unknown name
CategoryValues(c) ==
    {NoneValue, Dict(<<>>)} \cup
    CASE c \in CacheCategories ->
           {Dict([src_storage |-> "compress"]), Dict([cache_dir |-> "~/c"]),
            Dict([zzz |-> "1"])}
      [] c \in BuildCategories ->
           {Dict([debug |-> "1"]), Dict([debug |-> "0"]), Dict([debug |-> "maybe"]),
            Dict([zzz |-> "1"])}
      [] c \in GeneratorCategories -> {Dict([g1 |-> "1"])}
      [] OTHER -> {}

\* the parameter maps with at most two categories
Overrides ==
    UNION {{f \in [D -> UNION {CategoryValues(c) : c \in D}] :
               \A c \in D : f[c] \in CategoryValues(c)} :
           D \in {E \in SUBSET Categories : Cardinality(E) <= 2}}

\* no config file, one that sets debug, one that sets debug and the two
\* cache parameters, one with an unknown category
ConfigFiles ==
    {<<>>, [build |-> Dict([debug |-> "true"])],
     [build |-> Dict([debug |-> "true"]),
      cache |-> Dict([cache_dir |-> "/conf", src_storage |-> "delete"])],
     [other |-> Dict(<<>>)]}

InitParams ==
    /\ override \in Overrides
    /\ config \in [file : ConfigFiles, instant : {"<None>", "", "/instant"}]
    /\ buildon = ""
    /\ dirOf = [p \in Procs |-> ""]
    /\ peer = [p \in Procs |-> IdlePeer]
    /\ fs = NoFiles
    /\ xdev = FALSE
    /\ sched = "serial"
    /\ src0 = [p \in Procs |-> "a"]
    /\ dst0 = ""
    /\ call = [p \in Procs |-> IdleCall(Src(p), Dst, p)]
    /\ InitJitVars

\* the program calls dijitso.params.validate_params(override)
ValidateParams ==
    LET r == validate_params(override, config) IN
    /\ last.op = ""
    /\ last' = [op |-> "params.validate_params", err |-> r.err, p |-> r.p]
    /\ UNCHANGED <<fs, xdev, mvars, dirs, mem, ctr, stored>>
    /\ UNCHANGED <<override, config, buildon, dirOf, peer>>

\* the program calls dijitso.jit.validate_params(override)
JitValidateParams ==
    LET r == jit_validate_params(override) IN
    /\ last.op = ""
    /\ last' = [op |-> "jit.validate_params", err |-> r.err, p |-> r.p]
    /\ UNCHANGED <<fs, xdev, mvars, dirs, mem, ctr, stored>>
    /\ UNCHANGED <<override, config, buildon, dirOf, peer>>

NextParams == ValidateParams \/ JitValidateParams

SpecParams == InitParams /\ [][NextParams]_vars

\* ------------------------------------- an MPI program that assigns roles
NodeDirs == Roots \cup {"r3"}
Strategies == {"root", "node", "process"}

\* the peers whose lib_dir is the physical directory of peer p
DirPeers(p) == {q \in Procs : dirOf[q] = dirOf[p]}

\* every peer calls create_comms_and_role(comm, lib_dir, buildon) on the
\* world communicator; the lib directories exist, and an earlier program may
\* have left a rank file behind
InitRoles ==
    /\ dirOf \in [Procs -> NodeDirs]
    /\ buildon \in Strategies
    /\ fs \in {NoFiles, write_file(NoFiles, rank_file("r2", OldGuid, 0), "")}
    /\ peer = [p \in Procs |-> StartPeer]
    /\ override = <<>>
    /\ config = [file |-> <<>>, instant |-> "<None>"]
    /\ xdev = FALSE
    /\ sched = "serial"
    /\ src0 = [p \in Procs |-> "a"]
    /\ dst0 = ""
    /\ call = [p \in Procs |-> IdleCall(Src(p), Dst, p)]
    /\ InitJitVars

\* the peers that have not yet reached the step after pcs
Behind(pcs) == {q \in Procs : peer[q].pc \in pcs}

\* discover_path_access_ranks: receive the uuid rank 0 broadcasts and write
\* the own rank file
Touch(p) ==
    /\ peer[p].pc = "touch"
    /\ Rank(p) = 0 \/ \E q \in Procs : Rank(q) = 0 /\ peer[q].pc # "touch"
    /\ fs' = write_file(fs, rank_file(dirOf[p], Guid, Rank(p)), "")
    /\ peer' = [peer EXCEPT ![p].pc = "glob"]
    /\ UNCHANGED <<xdev, mvars, jvars, override, config, buildon, dirOf>>

\* after the first barrier: read the file list; create_node_comm takes the
\* lowest rank as node_root
Glob(p) ==
    LET noderanks == glob_ranks(fs, dirOf[p], Guid) IN
    /\ peer[p].pc = "glob"
    /\ Behind({"touch"}) = {}
    /\ peer' = [peer EXCEPT ![p].pc = "remove", ![p].noderanks = noderanks,
                              ![p].node_root = SetMin(noderanks)]
    /\ UNCHANGED <<fs, xdev, mvars, jvars, override, config, buildon, dirOf>>

RemoveNoBarrier(p) ==
    /\ peer[p].pc = "remove"
    /\ fs' = try_delete_file(fs, rank_file(dirOf[p], Guid, Rank(p)))
    /\ peer' = [peer EXCEPT ![p].pc = "assign"]
    /\ UNCHANGED <<xdev, mvars, jvars, override, config, buildon, dirOf>>

\* after the second barrier: remove the own rank file
Remove(p) ==
    /\ peer[p].pc = "remove"
    /\ Behind({"touch", "glob"}) = {}
    /\ fs' = os_remove(fs, rank_file(dirOf[p], Guid, Rank(p)))
    /\ peer' = [peer EXCEPT ![p].pc = "assign"]
    /\ UNCHANGED <<xdev, mvars, jvars, override, config, buildon, dirOf>>

\* the collective comm.Split (and, for "root", Allgather and comm.Create),
\* then the assignment of the role
Assign(p) ==
    /\ peer[p].pc = "assign"
    /\ Behind({"touch", "glob", "remove"}) = {}
    /\ peer' = [peer EXCEPT ![p] =
                  assign_role(@, buildon, Rank(p), comm_split(peer, p),
                              create_node_roots_comm(peer, p))]
    /\ UNCHANGED <<fs, xdev, mvars, jvars, override, config, buildon, dirOf>>

NextRoles == \E p \in Procs : Touch(p) \/ Glob(p) \/ Remove(p) \/ Assign(p)

SpecRoles == InitRoles /\ [][NextRoles]_vars

\* ------------------------------------------ an MPI program that jits
\* every peer calls create_comms_and_role and then jit, MaxCalls times, with
\* its own cache: for one signature, for the other, and again for the first,
\* as test_mpi_jit_strategies does
SigOfCall(n) == IF n = 2 THEN "s2" ELSE "s1"
TheSig(p) == SigOfCall(peer[p].njit)
PeerParams(p) == CacheParams(dirOf[p], "compress")
PeerLibOf(p, sig) == create_lib_filename(sig, PeerParams(p))
PeerLib(p) == PeerLibOf(p, TheSig(p))
PeerSrc(p) == create_src_filename(TheSig(p), PeerParams(p))

InitMpi ==
    /\ InitRoles
    /\ fs = NoFiles

\* the world of peer p: the shared disk and its own process
PeerWorld(p) ==
    [fs |-> fs, dirs |-> dirs, lib_cache |-> peer[p].lib_cache,
     ensure_dirs_called |-> FALSE, nload |-> peer[p].nload, ntmp |-> 0,
     xdev |-> FALSE, ev |-> peer[p].ev, ret |-> NoLib, err |-> ""]

\* what a step of peer p leaves behind; the peer goes on at pc unless the
\* step raised
PeerCommit(p, w, pc) ==
    /\ fs' = w.fs
    /\ dirs' = w.dirs
    /\ peer' = [peer EXCEPT ![p].lib_cache = w.lib_cache, ![p].nload = w.nload,
                            ![p].ev = w.ev, ![p].ret = w.ret, ![p].err = w.err,
                            ![p].pc = IF Raised(w) THEN "raised" ELSE pc,
                            ![p].nbar = IF ~Raised(w) /\ pc = "barrier"
                                        THEN @ + 1 ELSE @]
    /\ UNCHANGED <<xdev, mvars, mem, ctr, stored, last>>
    /\ UNCHANGED <<override, config, buildon, dirOf>>

\* where peer p goes after its build, copy or nothing: to the barrier if it
\* has a wait_comm, else to load_library
AfterBuild(p) == IF peer[p].wait_comm = NoComm THEN "load" ELSE "barrier"

\* jit: lookup_lib; return the library found, else take the branch of the
\* role
JitEnter(p) ==
    LET sig == SigOfCall(peer[p].njit + 1)
        w0 == [PeerWorld(p) EXCEPT !.ev = {}]
        w == lookup_lib(w0, sig, PeerParams(p), LoadOk(fs, PeerLibOf(p, sig)))
    IN
    /\ peer[p].pc \in {"done", "returned"}
    /\ peer[p].err = ""
    /\ peer[p].njit < MaxCalls
    /\ fs' = w.fs
    /\ dirs' = w.dirs
    /\ peer' = [peer EXCEPT
          ![p].lib_cache = w.lib_cache, ![p].nload = w.nload, ![p].ev = w.ev,
          ![p].ret = w.ret, ![p].err = w.err, ![p].njit = @ + 1,
          ![p].pc = CASE Raised(w) -> "raised"
                      [] w.ret # NoLib -> "returned"
                      [] peer[p].role = "builder" -> "generate"
                      [] peer[p].role = "receiver" -> "receive"
                      [] OTHER -> AfterBuild(p),
          ![p].nbar = IF ~Raised(w) /\ w.ret = NoLib /\ peer[p].role = "waiter"
                         /\ AfterBuild(p) = "barrier"
                      THEN @ + 1 ELSE @]
    /\ UNCHANGED <<xdev, mvars, mem, ctr, stored, last>>
    /\ UNCHANGED <<override, config, buildon, dirOf>>

\* builder 1): generate the source and store it in the cache
Generate(p) ==
    /\ peer[p].pc = "generate"
    /\ PeerCommit(p, generate_source_code(PeerWorld(p), TheSig(p),
                                           SourceOf(TheSig(p)), PeerParams(p)),
                   "compile")

\* builder 2): the compiler starts; with status 0 it creates the library
\* file in the lib directory, else ("nonzero") compile_library raises
CompileBegin(p, status) ==
    /\ peer[p].pc = "compile"
    /\ PeerCommit(p, IF status = 0
                      THEN creat(Event(make_lib_dir(PeerWorld(p), PeerParams(p)),
                                       "compile"), PeerLib(p))
                      ELSE jit_build_shared_library(
                               Event(PeerWorld(p), "nonzero"), TheSig(p), PeerSrc(p),
                               PeerParams(p), status),
                   "compiling")

\* the compiler has written the library and exits
CompileEnd(p) ==
    /\ peer[p].pc = "compiling"
    /\ PeerCommit(p, jit_build_shared_library(
                          PeerWorld(p), TheSig(p), PeerSrc(p), PeerParams(p), 0),
                   "send")

\* builder 3): send_library reads the library file and broadcasts it, if
\* copy_comm has other members; then compress_source_code
Send(p) ==
    LET sends == peer[p].copy_comm.kind = "comm" /\ comm_size(peer[p].copy_comm) > 1
        w1 == IF sends THEN Event(PeerWorld(p), "send") ELSE PeerWorld(p)
        w == compress_source_code(w1, PeerSrc(p), PeerParams(p))
    IN
    /\ peer[p].pc = "send"
    /\ fs' = w.fs
    /\ dirs' = w.dirs
    /\ peer' = [peer EXCEPT
          ![p].ev = w.ev, ![p].err = w.err,
          ![p].sent = IF sends THEN Append(@, fs[PeerLib(p)]) ELSE @,
          ![p].pc = IF Raised(w) THEN "raised" ELSE AfterBuild(p),
          ![p].nbar = IF ~Raised(w) /\ AfterBuild(p) = "barrier" THEN @ + 1 ELSE @]
    /\ UNCHANGED <<xdev, mvars, mem, ctr, stored, last>>
    /\ UNCHANGED <<override, config, buildon, dirOf>>

\* receiver 3): receive_library gets the bytes and starts to write them to
\* the library file; without a copy_comm the assertion fails
Receive(p) ==
    LET c == peer[p].copy_comm
        w == IF c.kind # "comm" THEN Fail(PeerWorld(p), "AssertionError")
             ELSE creat(Event(make_lib_dir(PeerWorld(p), PeerParams(p)), "receive"),
                        PeerLib(p))
    IN
    /\ peer[p].pc = "receive"
    /\ c.kind = "comm" => bcast_ready(peer, c, peer[p].nrecv + 1)
    /\ fs' = w.fs
    /\ dirs' = w.dirs
    /\ peer' = [peer EXCEPT
          ![p].ev = w.ev, ![p].err = w.err,
          ![p].buf = IF c.kind = "comm"
                     THEN bcast_data(peer, c, peer[p].nrecv + 1) ELSE @,
          ![p].nrecv = IF c.kind = "comm" THEN @ + 1 ELSE @,
          ![p].pc = IF Raised(w) THEN "raised" ELSE "writing"]
    /\ UNCHANGED <<xdev, mvars, mem, ctr, stored, last>>
    /\ UNCHANGED <<override, config, buildon, dirOf>>

\* lib_data.tofile(lib_filename) has written all bytes
WriteEnd(p) ==
    /\ peer[p].pc = "writing"
    /\ PeerCommit(p, tofile(PeerWorld(p), PeerLib(p), peer[p].buf), AfterBuild(p))

\* 4) wait_comm.Barrier() returns
Barrier(p) ==
    /\ peer[p].pc = "barrier"
    /\ barrier_open(peer, p)
    /\ peer' = [peer EXCEPT ![p].pc = "load"]
    /\ UNCHANGED <<fs, xdev, mvars, jvars, override, config, buildon, dirOf>>

\* load_library, and jit returns what it gives
Load(p) ==
    /\ peer[p].pc = "load"
    /\ PeerCommit(p, load_library(PeerWorld(p), TheSig(p), PeerParams(p),
                                   LoadOk(fs, PeerLib(p))),
                   "returned")

NextMpi ==
    \E p \in Procs :
        \/ Touch(p) \/ Glob(p) \/ Remove(p) \/ Assign(p)
        \/ JitEnter(p) \/ Generate(p)
        \/ \E status \in {0, 1} : CompileBegin(p, status)
        \/ CompileEnd(p) \/ Send(p) \/ Receive(p) \/ WriteEnd(p)
        \/ Barrier(p) \/ Load(p)

SpecMpi == InitMpi /\ [][NextMpi]_vars

\* ----------------------------------------------------------------------
\* store_textfile of cache.py and store_src of jit.py, statement by
\* statement: every process stores a content under the same file name, the
\* processes overlap and each may end at any statement
\* ----------------------------------------------------------------------
StoreFns == {"store_textfile", "store_src"}
StoreDir == <<"r1", "src">>
StorePath == FileName(StoreDir, "src", "s1")

\* the local variables of one call: the function, its content argument and
\* the old content it has read
StoreCall(fn, content) ==
    [pc |-> "start", fn |-> fn, content |-> content, old |-> "", err |-> ""]

\* the directory exists; an earlier call may have stored a file
InitStore ==
    /\ call \in [Procs -> {StoreCall(fn, c) : fn \in StoreFns, c \in Contents}]
    /\ fs \in {NoFiles, write_file(NoFiles, StorePath, "a")}
    /\ dirs = {StoreDir}
    /\ mem = FreshMem
    /\ ctr = [nload |-> 0, ntmp |-> 0, ncalls |-> 0]
    /\ stored = [x \in Sigs |-> NoLib]
    /\ last = NoCall
    /\ sched = "concurrent"
    /\ src0 = [p \in Procs |-> call[p].content]
    /\ dst0 = ""
    /\ xdev = FALSE
    /\ InitXVars

\* if os.path.exists(filename)
StoreExists(p) ==
    /\ call[p].pc = "start"
    /\ call' = [call EXCEPT ![p].pc = IF exists(fs, StorePath) THEN "read" ELSE "create"]
    /\ UNCHANGED <<fs, sched, src0, dst0, xdev, jvars, xvars>>

\* with open(filename, "r") as f: old_content = f.read(), and the
\* comparison with the content to store
StoreRead(p) ==
    /\ call[p].pc = "read"
    /\ call' = [call EXCEPT ![p].old = fs[StorePath],
                            ![p].pc = IF fs[StorePath] = call[p].content
                                      THEN "done" ELSE "differs"]
    /\ UNCHANGED <<fs, sched, src0, dst0, xdev, jvars, xvars>>

\* the old content differs: store_textfile writes it to filename + ".orig"
\* and goes on to overwrite the file; store_src writes the new content to
\* filename + ".new" and raises
StoreDiffers(p) ==
    /\ call[p].pc = "differs"
    /\ IF call[p].fn = "store_textfile"
       THEN /\ fs' = write_file(fs, with_ext(StorePath, ".orig"), call[p].old)
            /\ call' = [call EXCEPT ![p].pc = "create"]
       ELSE /\ fs' = write_file(fs, with_ext(StorePath, ".new"), call[p].content)
            /\ call' = [call EXCEPT ![p].pc = "done", ![p].err = "already exists"]
    /\ UNCHANGED <<sched, src0, dst0, xdev, jvars, xvars>>

\* open(filename, "w"): the file is created, or truncated, at its final name
StoreOpen(p) ==
    /\ call[p].pc = "create"
    /\ fs' = write_file(fs, StorePath, Partial)
    /\ call' = [call EXCEPT ![p].pc = "write"]
    /\ UNCHANGED <<sched, src0, dst0, xdev, jvars, xvars>>

\* f.write(content) and the close at the end of the with block
StoreWrite(p) ==
    /\ call[p].pc = "write"
    /\ fs' = write_file(fs, StorePath, call[p].content)
    /\ call' = [call EXCEPT ![p].pc = "done"]
    /\ UNCHANGED <<sched, src0, dst0, xdev, jvars, xvars>>

\* the process ends before its call has returned
StoreCrash(p) ==
    /\ call[p].pc \notin {"done", "crashed"}
    /\ call' = [call EXCEPT ![p].pc = "crashed"]
    /\ UNCHANGED <<fs, sched, src0, dst0, xdev, jvars, xvars>>

NextStore ==
    \E p \in Procs :
        \/ StoreExists(p) \/ StoreRead(p) \/ StoreDiffers(p)
        \/ StoreOpen(p) \/ StoreWrite(p) \/ StoreCrash(p)

SpecStore == InitStore /\ [][NextStore]_vars

\* ======================================================================
\* Properties of lockfree_move_file
\* ======================================================================
Returned(l) == l.pc = "done"
Staged(n) == n.stage # ""
Stragglers == {n \in DOMAIN fs : Staged(n) /\ [n EXCEPT !.stage = "", !.id = 0] = Dst}
AllFinished == \A p \in Procs : Finished(call[p])
Protocol(l) == l.uuids # {}

\* C1: every concurrent call returns normally, none raises, and dst exists
\* when a call has returned.
C1_EveryCallReturns ==
    \A p \in Procs :
        /\ call[p].pc # "raised"
        /\ Returned(call[p]) => exists(fs, Dst)

\* C2: once all calls onto dst have finished, the file dst exists and no
\* dst.priv.<id> or dst.pub.<id> is left.
C2_OneFileNoStragglers ==
    AllFinished => exists(fs, Dst) /\ Stragglers = {}

\* all calls finished, and one of them saw a competitor's published file
C2_Witness ==
    /\ AllFinished
    /\ dst0 = ""
    /\ \E p \in Procs : Cardinality(call[p].uuids) >= 2

\* C3: after every step dst, when it exists, holds the complete content of
\* one source (of the file that was there before the calls, if there was
\* one), and no step changes or removes an existing dst.
DstComplete ==
    exists(fs, Dst) =>
        IF dst0 # "" THEN fs[Dst] = dst0 ELSE fs[Dst] \in {src0[p] : p \in Procs}
DstStable ==
    exists(fs, Dst) => exists(fs', Dst) /\ fs'[Dst] = fs[Dst]
C3_FirstToLandWins == [][DstStable /\ DstComplete']_vars

\* C4: a call that finds dst with a different content warns, leaves dst
\* alone, deletes src and returns.
C4_SourceDeletedOnMismatch ==
    \A p \in Procs :
        (Returned(call[p]) /\ call[p].warned) =>
            /\ ~exists(fs, Src(p))
            /\ exists(fs, Dst) /\ fs[Dst] = call[p].d

\* C5: calls made one after the other with sources of one common content.
SameContent == \A p, q \in Procs : src0[p] = src0[q]
Common == src0[1]
InstalledEach ==
    /\ \A p \in Procs :
          Finished(call[p]) =>
              Returned(call[p]) /\ exists(fs, Dst) /\ ~exists(fs, Src(p))
    /\ AllFinished => fs[Dst] = Common

C6_CrashLeavesNoTornFile ==
    (\E p \in Procs : call[p].pc = "halted") =>
        /\ exists(fs, Dst) => fs[Dst] \in Contents
        /\ \A n \in DOMAIN fs : fs[n] = Partial => n.stage = "priv"

\* a caller was terminated while copying, its incomplete file is still
\* there, and another caller has installed dst
C6_Witness ==
    /\ \E p \in Procs :
          /\ call[p].pc = "halted"
          /\ exists(fs, priv(Dst, p)) /\ fs[priv(Dst, p)] = Partial
    /\ \E p \in Procs : call[p].pc = "halted" /\ exists(fs, pub(Dst, p))
    /\ dst0 = "" /\ exists(fs, Dst)

\* ======================================================================
\* Properties of jit and build_shared_library
\* ======================================================================
JitReturned == last.op = "jit" /\ last.err = "" /\ last.ret # NoLib
FoundAtLookup == last.pre_mem \/ (last.pre_disk /\ last.loadok)
CompileFailed == "compile" \in last.ev /\ last.status # 0
\* the compiler has exited with 0 and the library is at its cache path
BuiltOk ==
    \/ last.op = "build" /\ last.status = 0 /\ "install" \in last.ev
    \/ last.op = "jit" /\ last.status = 0 /\ "compile" \in last.ev
SrcFile == FileName(<<last.root, "src">>, "src", last.sig)
GzFile == with_ext(SrcFile, ".gz")
FailFiles == {n.kind : n \in {m \in DOMAIN fs : m.dir = FailDir(last.sig)}}

\* C7: within one process, once jit has returned a handle for a signature,
\* every later jit call for that signature that returns a handle returns that
\* same handle object, whatever jit calls on other signatures come between.
C7_SameHandleAgain ==
    (JitReturned /\ stored[last.sig] # NoLib) => last.ret = stored[last.sig]

\* a third call returns the handle of the first, after a call on the other
\* signature has returned another handle
C7_Witness ==
    /\ JitReturned /\ last.pre_mem /\ ctr.ncalls = 3
    /\ last.ret = stored[last.sig]
    /\ \A x \in Sigs : stored[x] # NoLib
    /\ \E x \in Sigs : stored[x] # last.ret

\* C8: when the lookup finds the library, in the memory map or on disk (also
\* in a restarted process whose memory map is empty), jit returns a handle
\* and runs neither the generator nor the compiler; without communicators
\* there is no send or receive step at all.
C8_FoundMeansNoBuild ==
    (last.op = "jit" /\ FoundAtLookup) =>
        /\ JitReturned
        /\ last.ev \cap {"generate", "compile"} = {}

\* a restarted process finds the library on disk only and returns a handle
C8_Witness ==
    /\ mem.restarted /\ JitReturned
    /\ ~last.pre_mem /\ last.pre_disk
    /\ "load" \in last.ev

\* C9: when the compiler exits non-zero in a jit or build call for a
\* signature that had no file in the cache, then after the call the cache
\* holds no file of that signature and the directory jitfailure-<signature>
\* exists with the files command, error.log, the source and, if a header
\* was given, the header.
C9_FailureLeavesCacheClean ==
    (last.op \in {"jit", "build"} /\ CompileFailed /\ last.pre_files = {}) =>
        /\ CacheFiles(fs, last.sig, last.root) = {}
        /\ FailDir(last.sig) \in dirs
        /\ {"command", "error.log", "src"} \subseteq FailFiles
        /\ last.header # "" => "inc" \in FailFiles

\* C10: after a successful build (the compiler exited with 0 and the
\* library is in the cache), 'keep' leaves the uncompressed source, 'delete'
\* leaves neither the source nor a .gz, 'compress' leaves the .gz and not
\* the source, and any other src_storage raises an error.
C10_SourceRetention ==
    BuiltOk =>
        /\ last.storage = "keep" => exists(fs, SrcFile)
        /\ last.storage = "delete" => ~exists(fs, SrcFile) /\ ~exists(fs, GzFile)
        /\ last.storage = "compress" => exists(fs, GzFile) /\ ~exists(fs, SrcFile)
        /\ last.storage \notin {"keep", "delete", "compress"}
               <=> last.err = "Invalid src_storage parameter."

\* a build with 'compress' has returned the library and left the .gz only
C10_Witness ==
    /\ BuiltOk /\ last.storage = "compress" /\ last.err = "" /\ last.ret # NoLib
    /\ exists(fs, GzFile) /\ ~exists(fs, SrcFile)
    /\ exists(fs, create_lib_filename(last.sig, CacheParams(last.root, last.storage)))

\* ======================================================================
\* Properties of validate_params
\* ======================================================================
Validated == last.op \in {"params.validate_params", "jit.validate_params"}
\* the categories of the validate_params that was called
KnownCategories ==
    IF last.op = "params.validate_params" THEN {"cache", "build", "generator"}
    ELSE {"cache_params", "build_params", "generator_params"}
GeneratorCategory == CHOOSE c \in KnownCategories : c \in GeneratorCategories
KnownNames(c) ==
    CASE c = "cache" -> {"cache_dir", "src_storage"}
      [] c = "cache_params" -> {"src_storage"}
      [] c \in BuildCategories -> {"debug"}
      [] OTHER -> {}
UnknownCategory == \E c \in DOMAIN override : c \notin KnownCategories
UnknownName ==
    \E c \in DOMAIN override \cap (CacheCategories \cup BuildCategories) :
        ~override[c].none /\ DOMAIN override[c].kv \ KnownNames(c) # {}
GoodValues ==
    /\ \A c \in DOMAIN override \cap BuildCategories :
          \A n \in DOMAIN override[c].kv : override[c].kv[n] # "maybe"
    /\ "other" \notin DOMAIN config.file
GivenGenerator ==
    IF GeneratorCategory \in DOMAIN override
    THEN override[GeneratorCategory].kv ELSE <<>>

\* C11: validate_params raises for every parameter map with an unknown
\* category or an unknown name in the cache or build category; for every map
\* whose only unusual names are in the generator category (its values and the
\* config file being valid) it returns, with those generator names and
\* values unchanged.
C11_UnknownRejectedGeneratorVerbatim ==
    Validated =>
        /\ (UnknownCategory \/ UnknownName) => last.err # ""
        /\ (~UnknownCategory /\ ~UnknownName /\ GoodValues) =>
              /\ last.err = ""
              /\ last.p[GeneratorCategory] = GivenGenerator

\* the same, of validate_params of dijitso/params.py alone
C11_ParamsModule ==
    last.op = "params.validate_params" => C11_UnknownRejectedGeneratorVerbatim

\* ======================================================================
\* Properties of create_comms_and_role
\* ======================================================================
Assigned(p) == peer[p].pc = "done"
AllAssigned == \A p \in Procs : Assigned(p)
OwnDirectory(p) == DirPeers(p) = {p}
LowestOfDirectory(p) == \A q \in DirPeers(p) : Rank(p) <= Rank(q)
RoleIs(p, role) == peer[p].err = "" /\ peer[p].role = role
BuildersOf(p) == {q \in DirPeers(p) : peer[q].role = "builder"}
ReceiversOf(p) == {q \in DirPeers(p) : peer[q].role = "receiver"}

\* C12: with strategy 'process', every peer gets the role builder with
\* copy_comm and wait_comm None when every peer has its own physical
\* directory, and the call raises on every peer that shares its physical
\* directory with another peer.
C12_ProcessStrategy ==
    buildon = "process" =>
        /\ (\A q \in Procs : OwnDirectory(q)) =>
              \A p \in Procs : Assigned(p) =>
                  /\ RoleIs(p, "builder")
                  /\ peer[p].copy_comm = NoComm /\ peer[p].wait_comm = NoComm
        /\ \A p \in Procs : (Assigned(p) /\ ~OwnDirectory(p)) => peer[p].err # ""

\* all peers have returned or raised; two share a directory and raised, the
\* third has its own and builds
C12_Witness ==
    /\ buildon = "process" /\ AllAssigned
    /\ \E p \in Procs : ~OwnDirectory(p) /\ peer[p].err # ""
    /\ \E p \in Procs : OwnDirectory(p) /\ RoleIs(p, "builder")
                         /\ peer[p].wait_comm = NoComm

\* C13: with strategy 'node', each directory has exactly one builder, its
\* lowest-ranked peer, all its other peers are waiters, copy_comm is None
\* and wait_comm holds exactly the peers of the own directory.
C13_NodeStrategy ==
    (buildon = "node" /\ AllAssigned) =>
        \A p \in Procs :
            /\ IF LowestOfDirectory(p) THEN RoleIs(p, "builder")
               ELSE RoleIs(p, "waiter")
            /\ Cardinality(BuildersOf(p)) = 1
            /\ peer[p].copy_comm = NoComm
            /\ peer[p].wait_comm = Comm({Rank(q) : q \in DirPeers(p)})
            /\ comm_size(peer[p].wait_comm) = Cardinality(DirPeers(p))

\* two directories, one of them shared, and a rank file left by an earlier
\* program
C13_Witness ==
    /\ buildon = "node" /\ AllAssigned /\ DOMAIN fs # {}
    /\ \E p, q \in Procs : RoleIs(p, "builder") /\ RoleIs(q, "waiter")
    /\ Cardinality({p \in Procs : peer[p].role = "builder"}) = 2

\* C14: with strategy 'root', rank 0 is the only builder, every directory
\* other than the builder's has exactly one receiver, its lowest-ranked
\* peer, the builder's directory has none, and all other peers are waiters.
C14_RootStrategy ==
    (buildon = "root" /\ AllAssigned) =>
        \A p \in Procs :
            /\ CASE Rank(p) = 0 -> RoleIs(p, "builder")
                 [] Rank(p) # 0 /\ LowestOfDirectory(p) -> RoleIs(p, "receiver")
                 [] OTHER -> RoleIs(p, "waiter")
            /\ Cardinality({q \in Procs : peer[q].role = "builder"}) = 1
            /\ Cardinality(ReceiversOf(p)) =
                  IF \E q \in DirPeers(p) : Rank(q) = 0 THEN 0 ELSE 1

\* a builder, a waiter in its directory and a receiver in another one
C14_Witness ==
    /\ buildon = "root" /\ AllAssigned
    /\ \E p, q, r \in Procs :
          /\ RoleIs(p, "builder") /\ RoleIs(q, "waiter") /\ RoleIs(r, "receiver")
          /\ dirOf[p] = dirOf[q] /\ dirOf[r] # dirOf[p]

\* ======================================================================
\* The cache key
\* ======================================================================
LibFiles(f, sig, root) == {n \in DOMAIN f : n.kind = "lib" /\ n.sig = sig /\ n.dir[1] = root}

\* C15: when a jit call that returned a library is followed by a jit call
\* with the same signature and the same cache but another debug value, the
\* second call does not return the library of the first: it builds again,
\* and two library files exist afterwards.
C15_BuildParamsInKey ==
    [][(/\ JitReturned
        /\ last'.op = "jit" /\ last'.err = ""
        /\ last'.sig = last.sig /\ last'.root = last.root
        /\ last'.debug # last.debug)
       => /\ last'.ret # last.ret
          /\ "compile" \in last'.ev
          /\ Cardinality(LibFiles(fs', last.sig, last.root)) = 2]_vars

\* ======================================================================
\* The temporary working directory of a build
\* ======================================================================
TmpDirsMade == {TmpDir(n) : n \in 1..ctr.ntmp}

\* C18: when a call of build_shared_library has ended, with a library
\* installed, with a failed compilation or with an error raised, none of
\* the temporary directories made so far exists any more.
C18_TempDirRemoved ==
    last.op = "build" => TmpDirsMade \cap dirs = {}

\* ======================================================================
\* Stores of text files
\* ======================================================================
\* C19: at every moment, whatever the interleaving of the store calls and
\* wherever a process ends, the file at the path is absent or holds the
\* complete content of one store call.
C19_StoreAtomic ==
    exists(fs, StorePath) => fs[StorePath] \in Contents

\* ======================================================================
\* Properties of jit with MPI
\* ======================================================================
Builder == CHOOSE q \in Procs : Rank(q) = 0
IsReceiver(p) == peer[p].role = "receiver" /\ peer[p].err = ""
HasWritten(p) == "receive" \in peer[p].ev /\ peer[p].pc \in {"barrier", "load", "returned"}
FollowUp(p) == peer[p].njit = 3 /\ peer[p].pc = "returned"
PastBarrier(p) == peer[p].pc = "load" /\ peer[p].wait_comm # NoComm
LibComplete(p) == exists(fs, PeerLib(p)) /\ fs[PeerLib(p)] # Partial

\* C16: the bytes a receiver has written to the library path of its cache
\* are the bytes the builder read from its library file and sent; a
\* follow-up jit call of the receiver returns a handle without generating,
\* compiling or receiving.
C16_ReceiverInstallsSentBytes ==
    \A p \in Procs : IsReceiver(p) =>
        /\ HasWritten(p) =>
              /\ fs[PeerLib(p)] = peer[Builder].sent[peer[p].nrecv]
              /\ fs[PeerLib(p)] = fs[PeerLibOf(Builder, TheSig(p))]
        /\ FollowUp(p) =>
              /\ peer[p].ret # NoLib
              /\ peer[p].ev \cap {"generate", "compile", "receive"} = {}

\* a receiver has returned from its second jit call for the first
\* signature, with the library of the builder in its own cache
C16_Witness ==
    \E p \in Procs :
        /\ IsReceiver(p) /\ FollowUp(p) /\ peer[p].ret # NoLib
        /\ dirOf[p] # dirOf[Builder]
        /\ fs[PeerLib(p)] = compiled(SourceOf(TheSig(p)))

\* C17: as long as no build has failed, when a peer returns from the barrier
\* on wait_comm, the library file of the signature of its call exists,
\* completely written, at the final path in its cache directory.
C17_LibraryThereAfterWait ==
    (\A q \in Procs : peer[q].err = "") =>
        \A p \in Procs : PastBarrier(p) => LibComplete(p)

\* C20: no library file at its final cache path is ever partially written.
C20_NoPartialLibrary ==
    \A n \in DOMAIN fs : (n.kind = "lib" /\ n.stage = "") => fs[n] # Partial

\* ======================================================================
\* Errors of jit
\* ======================================================================
CompilerFailed(p) == "nonzero" \in peer[p].ev

NoRoleImplied ==
    /\ last.op = "jit" /\ ~last.pre_mem /\ ~last.pre_disk
    /\ last.role \in {"waiter", "bogus"}

\* C22: when the library is not in the cache and the role is unknown, or is
\* "waiter" while no wait_comm was passed, jit fails with an error, without
\* having called the generator or the compiler and without having written
\* a file; it does not return normally.
C22_NoRoleIsCallerError ==
    NoRoleImplied =>
        /\ last.err # ""
        /\ last.ev = {}
        /\ CacheFiles(fs, last.sig, last.root) = last.pre_files

\* C23: when the generator raises in a jit call, the call ends with the
\* error and leaves the cache as it was: no file has been created or
\* changed and the library map in memory has no new entry.
C23_GeneratorErrorLeavesCache ==
    [][(last'.op = "jit" /\ last'.raises) =>
          /\ last'.err # "" /\ last'.ret = NoLib
          /\ fs' = fs
          /\ mem'.lib_cache = mem.lib_cache]_vars

\* the generator has raised in a call for one signature, in a process that
\* has a library of the other signature on disk and in memory
C23_Witness ==
    /\ last.op = "jit" /\ last.raises /\ last.err # ""
    /\ \E sig \in Sigs \ {last.sig} :
          /\ sig \in DOMAIN mem.lib_cache
          /\ \E n \in DOMAIN fs : n.kind = "lib" /\ n.sig = sig

\* ======================================================================
\* The precedence of the parameters
\* ======================================================================
ParamsReturned == last.op = "params.validate_params" /\ last.err = ""
Given(m, c, n) == c \in DOMAIN m /\ ~m[c].none /\ n \in DOMAIN m[c].kv
Chosen(c, n) ==
    IF Given(override, c, n) THEN override[c].kv[n]
    ELSE IF Given(config.file, c, n) THEN config.file[c].kv[n]
    ELSE default_params[c][n]
Precedence(envdir) ==
    ParamsReturned =>
        \A c \in {"cache", "build"} : \A n \in DOMAIN default_params[c] :
            last.p[c][n] = IF c = "cache" /\ n = "cache_dir" /\ envdir
                           THEN join_dijitso(config.instant)
                           ELSE convert(c, n, Chosen(c, n))

\* C24 as stated: every cache and build parameter validate_params returns
\* is the override if one was given, else the value of the config file if
\* it has one, else the default, converted to the type of the default;
\* but cache_dir is <env>/dijitso whenever INSTANT_CACHE_DIR is set.
C24_Precedence == Precedence(config.instant # "<None>")

\* C24 amended: the same, where cache_dir is <env>/dijitso whenever
\* INSTANT_CACHE_DIR is set to a value that is not empty.
C24_PrecedenceNonEmptyEnv == Precedence(config.instant \notin {"<None>", ""})

\* validate_params has returned where the override and the config file
\* disagree on debug, the config file alone gives src_storage, and the
\* override gives a cache_dir that INSTANT_CACHE_DIR replaces
C24_Witness ==
    /\ ParamsReturned
    /\ Given(override, "build", "debug") /\ Given(config.file, "build", "debug")
    /\ last.p.build.debug = "<False>"
    /\ Given(override, "cache", "cache_dir") /\ config.instant = "/instant"
    /\ ~Given(override, "cache", "src_storage")
    /\ last.p.cache.src_storage = "delete"

\* ======================================================================
\* The library map in memory
\* ======================================================================
\* C25: every entry a call adds to the library map of the process comes
\* from a load_library of that signature whose load succeeded, and no call
\* removes an entry of the map or replaces its handle.
C25_MapOnlyGrows ==
    [][last'.op \in {"jit", "load_library"} =>
          /\ \A sig \in DOMAIN mem.lib_cache :
                /\ sig \in DOMAIN mem'.lib_cache
                /\ mem'.lib_cache[sig] = mem.lib_cache[sig]
          /\ \A sig \in DOMAIN mem'.lib_cache \ DOMAIN mem.lib_cache :
                sig = last'.sig /\ "load" \in last'.ev /\ last'.loadok]_vars

\* ======================================================================
\* The cooperation of the callers of lockfree_move_file
\* ======================================================================
PastDelLarger(l) ==
    \/ l.pc \in {"yield", "chk_final", "del_own", "rename_final", "chk_src",
                 "chk_end"}
    \/ l.pc = "done" /\ l.uuids # {}
PastYield(l) == PastDelLarger(l) /\ l.pc # "yield"
Enumerated(l, i) == i \in l.uuids

\* C26: a caller that has enumerated a published file with an id below its
\* own has deleted its own published file and does not rename it to dst;
\* every caller has deleted every enumerated file with an id above its own;
\* the file a caller renames to dst is the lowest of those it enumerated.
C26_YieldToLowest ==
    \A p \in Procs :
        LET l == call[p] IN
        /\ (PastYield(l) /\ \E j \in l.uuids : j < l.own) =>
              /\ ~exists(fs, pub(l.dst, l.own))
              /\ l.ui # l.own
        /\ PastDelLarger(l) =>
              \A i \in l.uuids : i > l.own => ~exists(fs, pub(l.dst, i))
        /\ l.pc = "rename_final" =>
              /\ Enumerated(l, l.ui)
              /\ \A i \in l.uuids : l.ui <= i

\* a caller that enumerated a lower and a higher id is about to rename the
\* file of the lower one to dst
C26_Witness ==
    \E p \in Procs :
        /\ call[p].pc = "rename_final" /\ call[p].ui < call[p].own
        /\ \E i \in call[p].uuids : i > call[p].own
        /\ exists(fs, pub(call[p].dst, call[p].ui))

\* ======================================================================
\* discover_path_access_ranks
\* ======================================================================
HasEnumerated(p) == peer[p].pc \notin {"idle", "touch", "glob"}
HasRemoved(p) == peer[p].pc \notin {"idle", "touch", "glob", "remove"}
Markers(guid) == {n \in DOMAIN fs : n.kind = "rank" /\ n.sig = guid}

\* C27: whatever the directories of the peers, discover_path_access_ranks
\* gives every peer the ranks of the peers of its own physical directory,
\* no more and no less: its own rank is among them, the relation is
\* symmetric, and the rank files of another run are not counted.
C27_RanksOfOwnDirectory ==
    \A p \in Procs : HasEnumerated(p) =>
        /\ peer[p].noderanks = {Rank(q) : q \in DirPeers(p)}
        /\ Rank(p) \in peer[p].noderanks
        /\ \A q \in Procs : HasEnumerated(q) =>
              (Rank(q) \in peer[p].noderanks <=> Rank(p) \in peer[q].noderanks)

\* a peer that shares its directory with another peer, but not with rank
\* 0, has enumerated the directory where the earlier run left the rank file
\* of its rank 0
C27_Witness ==
    \E p \in Procs :
        /\ HasEnumerated(p) /\ dirOf[p] = "r2"
        /\ Cardinality(DirPeers(p)) = 2 /\ Rank(p) # 0 /\ 0 \notin peer[p].noderanks
        /\ exists(fs, rank_file("r2", OldGuid, 0))

\* C28: no peer has removed its rank file before every peer has written
\* its own and enumerated the files, and once every peer has returned no
\* rank file of this run is left in any directory.
C28_RemoveAfterAllEnumerated ==
    /\ (\E p \in Procs : HasRemoved(p)) => \A q \in Procs : HasEnumerated(q)
    /\ (\E p \in Procs : ~HasEnumerated(p)) =>
          \A q \in Procs : peer[q].pc \notin {"idle", "touch"} =>
              exists(fs, rank_file(dirOf[q], Guid, Rank(q)))
    /\ (\A p \in Procs : HasRemoved(p)) => Markers(Guid) = {}

\* every peer has returned, two of them from the same directory, and only
\* the rank file of the earlier run is left
C28_Witness ==
    /\ \A p \in Procs : HasRemoved(p)
    /\ \E p \in Procs : Cardinality(DirPeers(p)) = 2
    /\ Markers(OldGuid) # {} /\ Markers(Guid) = {}

\* ======================================================================
\* The communicators of the strategy "root"
\* ======================================================================
CopyMembers == {p \in Procs : peer[p].copy_comm.kind = "comm"}

\* C29: with strategy 'root', the members of copy_comm are the builder and
\* the receivers, which are the lowest peers of the physical directories;
\* the builder has rank 0 in copy_comm and no waiter is a member; the
\* wait_comm of a peer holds the peers of its own physical directory.
C29_RootCommunicators ==
    (buildon = "root" /\ AllAssigned) =>
        /\ CopyMembers = {p \in Procs : peer[p].role \in {"builder", "receiver"}}
        /\ CopyMembers = {p \in Procs : LowestOfDirectory(p)}
        /\ \A p \in CopyMembers :
              /\ peer[p].copy_comm.ranks = {Rank(q) : q \in CopyMembers}
              /\ peer[p].role = "builder" <=> comm_rank(peer[p].copy_comm, Rank(p)) = 0
        /\ \A p \in Procs :
              /\ peer[p].err = ""
              /\ peer[p].role = "waiter" => peer[p].copy_comm.kind # "comm"
              /\ peer[p].wait_comm = Comm({Rank(q) : q \in DirPeers(p)})

\* strategy 'root' with two directories: a copy_comm of two members and a
\* waiter with a wait_comm of two members
C29_Witness ==
    /\ buildon = "root" /\ AllAssigned
    /\ \E p \in CopyMembers : comm_size(peer[p].copy_comm) = 2
    /\ \E p \in Procs : peer[p].role = "waiter" /\ comm_size(peer[p].wait_comm) = 2

\* ======================================================================
\* The compile command
\* ======================================================================
\* the first occurrence of every element of a list, in the order of the list
FirstOccurrences(ds) ==
    LET I == {i \in DOMAIN ds : \A j \in 1..(i - 1) : ds[j] # ds[i]} IN
    [k \in 1..Cardinality(I) |->
        ds[CHOOSE i \in I : Cardinality({j \in I : j < i}) = k - 1]]

\* the configured list followed by the cache's own directory, with later
\* duplicates removed, made absolute
CommandDirs(configured, own) ==
    LET ds == FirstOccurrences(Append(configured, dir_name(own))) IN
    [i \in DOMAIN ds |-> abspath(ds[i])]

CommandMade == last.op = "make_compile_command"

\* the argv of the last call, as the order of C30 gives it
ArgvInOrder ==
    LET b == last.cmd.build
        cp == CacheParams(last.root, "keep")
    IN  <<<<"", b.cxx>>, <<"-o", last.cmd.lib>>>>
        \o prefixed("", b.cxxflags)
        \o prefixed("", IF b.debug THEN b.cxxflags_debug ELSE b.cxxflags_opt)
        \o prefixed("-I", CommandDirs(b.include_dirs, <<last.root, "inc">>))
        \o prefixed("-L", CommandDirs(b.lib_dirs, <<last.root, "lib">>))
        \o prefixed("-Wl,-rpath,", CommandDirs(b.rpath_dirs, <<last.root, "lib">>))
        \o <<<<"", last.cmd.src>>>>
        \o [i \in DOMAIN last.cmd.deps |->
               <<"-l", create_lib_filename(last.cmd.deps[i], cp)>>]
        \o prefixed("-l", b.libs)

\* C30: make_compile_command returns an argv in this order: the compiler,
\* -o<lib>, the always-flags, the debug flags if debug is set and the
\* release flags otherwise, one -I per include directory, one -L per
\* library directory and one -Wl,-rpath, per rpath directory (each list is
\* the configured list followed by the cache's own directory, later
\* duplicates removed, made absolute), the source filename, one -l per
\* dependency's cache library filename, one -l per configured library.
C30_CommandOrder ==
    CommandMade => last.err = "" /\ last.cmd.args = ArgvInOrder

\* ======================================================================
\* Source retention
\* ======================================================================
LibFile == create_lib_filename(last.sig, CacheParams(last.root, last.storage))

\* C31: compress_source_code is executed for a signature only after the
\* compiler returned status 0 and the library is at its final cache path;
\* when the compilation fails, the source is neither deleted nor compressed.
C31_RetentionAfterInstall ==
    /\ "retain" \in last.ev => BuiltOk /\ exists(fs, LibFile)
    /\ CompileFailed =>
          /\ "retain" \notin last.ev
          /\ exists(fs, SrcFile)
          /\ exists(fs, GzFile) => GzFile \in last.pre_files

\* a failed compilation under 'compress' has left the source as it was,
\* after a build of the other signature was compressed
C31_Witness ==
    /\ CompileFailed /\ last.storage = "compress" /\ last.err # ""
    /\ exists(fs, SrcFile) /\ ~exists(fs, GzFile)
    /\ \E x \in Sigs \ {last.sig} :
          exists(fs, with_ext(FileName(<<last.root, "src">>, "src", x), ".gz"))

\* ======================================================================
\* Lookups
\* ======================================================================
LookedUp == last.op = "lookup_lib"

\* C32: lookup_lib returns the handle of the map when the signature is in
\* the map; otherwise, it returns None and leaves the map as it is if the
\* library file does not exist, it raises and leaves the map as it is if
\* the dynamic linker rejects the file, and it puts the new handle in the
\* map under the signature and returns it if the load succeeds.
C32_LookupOutcomes ==
    [][last'.op = "lookup_lib" =>
         LET sig == last'.sig
             lib_cache == mem.lib_cache
             in_map == sig \in DOMAIN lib_cache
             on_disk == exists(fs, create_lib_filename(sig, CacheParams(last'.root, "keep")))
         IN
         /\ in_map =>
               /\ last'.err = "" /\ last'.ret = lib_cache[sig]
               /\ mem'.lib_cache = lib_cache
         /\ (~in_map /\ ~on_disk) =>
               /\ last'.err = "" /\ last'.ret = NoLib
               /\ mem'.lib_cache = lib_cache
         /\ (~in_map /\ on_disk /\ ~last'.loadok) =>
               /\ last'.err # ""
               /\ mem'.lib_cache = lib_cache
         /\ (~in_map /\ on_disk /\ last'.loadok) =>
               /\ last'.err = "" /\ last'.ret # NoLib
               /\ last'.ret \notin {lib_cache[x] : x \in DOMAIN lib_cache}
               /\ DOMAIN mem'.lib_cache = DOMAIN lib_cache \cup {sig}
               /\ mem'.lib_cache[sig] = last'.ret
               /\ \A x \in DOMAIN lib_cache : mem'.lib_cache[x] = lib_cache[x]
    ]_vars

\* after a restart, a lookup has loaded a library from the disk and put it
\* in the map, next to the library of the other signature
C32_Witness ==
    /\ LookedUp /\ last.err = "" /\ ~last.pre_mem /\ last.pre_disk
    /\ mem.restarted
    /\ last.ret # NoLib /\ mem.lib_cache[last.sig] = last.ret
    /\ DOMAIN mem.lib_cache = Sigs

\* C38: the handle that lookup_lib(signature, cache_params) returns was
\* loaded from the library path that this cache_params gives for the
\* signature, never from another cache directory.
C38_HandleOfThisCache ==
    (LookedUp /\ last.err = "" /\ last.ret # NoLib) =>
        /\ last.ret.sig = last.sig
        /\ last.ret.root = last.root

\* ======================================================================
\* The collective steps of jit
\* ======================================================================
\* peer p has returned from its last jit call
LastReturned(p) == peer[p].pc = "returned" /\ peer[p].njit = MaxCalls
WaitMembers(q) == {p \in Procs : Rank(p) \in peer[q].wait_comm.ranks}
\* q is in the barrier, which the other members, all returned from their
\* last call, will not enter any more
BlockedInBarrier(q) ==
    /\ peer[q].pc = "barrier" /\ ~barrier_open(peer, q)
    /\ \A p \in WaitMembers(q) \ {q} : LastReturned(p)
\* q is in the broadcast, which the sender, returned from its last call,
\* will not make any more
BlockedInBcast(q) ==
    /\ peer[q].pc = "receive" /\ peer[q].copy_comm.kind = "comm"
    /\ ~bcast_ready(peer, peer[q].copy_comm, peer[q].nrecv + 1)
    /\ LastReturned(bcast_root(peer[q].copy_comm))

\* C33: of the peers of one wait_comm (of one copy_comm) that call jit for
\* the same signature, all enter the barrier (the broadcast) or none does:
\* when no call has failed, no peer is left in the collective step by
\* peers that have returned without entering it.
C33_AllOrNoneCollective ==
    (\A p \in Procs : peer[p].err = "") =>
        \A q \in Procs : ~BlockedInBarrier(q) /\ ~BlockedInBcast(q)

\* peer q waits in a collective step for a peer whose jit call has raised
\* and who makes no further step
LeftBehind(q) ==
    \/ /\ peer[q].pc = "barrier"
       /\ \E b \in WaitMembers(q) :
             peer[b].pc = "raised" /\ peer[b].nbar < peer[q].nbar
    \/ /\ peer[q].pc = "receive" /\ peer[q].copy_comm.kind = "comm"
       /\ ~bcast_ready(peer, peer[q].copy_comm, peer[q].nrecv + 1)
       /\ peer[bcast_root(peer[q].copy_comm)].pc = "raised"

\* C34: if the generator or the compiler fails on the builder, every
\* receiver and waiter that shares a copy_comm or wait_comm with it leaves
\* its jit call: none stays in the broadcast or the barrier, waiting for the
\* builder that has left.
C34_PeersLeaveAfterFailure ==
    \A q \in Procs : ~LeftBehind(q)

\* ======================================================================
\* The directories of the cache
\* ======================================================================
CacheDirs(root) == {<<root, "inc">>, <<root, "src">>, <<root, "lib">>, <<root, "log">>}

\* C35: after every return of ensure_dirs(cache_params), the inc, src, lib
\* and log directories of that cache_params exist, whatever calls of
\* ensure_dirs the process has made before, with this root or another.
C35_DirsExistAfterEnsure ==
    (last.op = "ensure_dirs" /\ last.err = "") => CacheDirs(last.root) \subseteq dirs

\* ======================================================================
\* What jit returns
\* ======================================================================
\* C36: whenever a jit call returns normally, in any role, it returns a
\* loaded library handle, never None, and the in-memory map holds that
\* handle under the signature of the call.
C36_ReturnsLoadedHandle ==
    (last.op = "jit" /\ last.err = "") =>
        /\ last.ret # NoLib
        /\ last.sig \in DOMAIN mem.lib_cache
        /\ mem.lib_cache[last.sig] = last.ret

\* ======================================================================
\* Source retention, applied again
\* ======================================================================
\* C37: compress_source_code is idempotent for every retention policy: a
\* second application to the same source filename, right after a first one
\* that returned, does not fail and leaves the files as they are.
C37_RetentionIdempotent ==
    [][(/\ last.op = "compress_source_code" /\ last.err = ""
        /\ last'.op = "compress_source_code"
        /\ last'.sig = last.sig /\ last'.root = last.root
        /\ last'.storage = last.storage)
       => (last'.err = "" /\ fs' = fs)]_vars

\* ======================================================================
\* Callers of lockfree_move_file that halt
\* ======================================================================
Halted(p) == call[p].pc = "halted"
Survivors == {p \in Procs : Finished(call[p])}

\* C39: if one of the concurrent callers onto the same dst halts for good,
\* at whatever step, every other caller still returns normally with dst
\* existing: once all the others have ended their calls, none has raised
\* and dst exists.
C39_SurvivorsUnharmed ==
    (/\ Cardinality({p \in Procs : Halted(p)}) = 1
     /\ Survivors = {p \in Procs : ~Halted(p)})
    => /\ exists(fs, Dst)
       /\ \A q \in Survivors : call[q].pc = "done"

====
